---- MODULE Spec2Model ----
(***************************************************************************)
(* Billing transactions, stock management and the analytics cache of the   *)
(* MIMS pharmacy backend (storeService.js, storeController.js,             *)
(* validation.js, analyticsService.js).                                    *)
(*                                                                         *)
(* One store document is modelled.  Its persisted part is the pair         *)
(* (stock, billingHistory) plus Mongoose's version key __v.  Every service *)
(* function is an async function: it reads the document (findOne), works   *)
(* on its in-memory copy without yielding, and then awaits save().  Each   *)
(* is therefore two steps, <Op>Find and <Op>Save, and calls of different   *)
(* requests interleave between the two.                                    *)
(***************************************************************************)
EXTENDS Integers, Sequences, FiniteSets, TLC

VARIABLES
    stock,           \* persisted store.stock: sequence of stock entries
    billingHistory,  \* persisted store.billingHistory: sequence of records
    version,         \* persisted __v of the store document
    pc,              \* per request: "idle" or the operation awaiting save()
    doc,             \* per request: the document as loaded by findOne
    args,            \* per request: the arguments of its current or last call
    conflict,        \* per request: the document was written after its read
    result,          \* per request: outcome of its last finished call
    calls,           \* number of calls started so far
    now,             \* Date.now(), in milliseconds
    analyticsCache,  \* the Map of analyticsService.js: key -> entry
    apc,             \* per analytics request: its position
    areq,            \* per analytics request: the resolved period of its call
    ascan,           \* per analytics request: what its scans returned so far
    served,          \* every value getSalesAnalytics has returned, in order
    commitLog,       \* per billing record: the time its save() committed
    refreshTrigger,  \* StockRefreshProvider: the state of useState(0)
    updateQueue,     \* StockRefreshProvider: updaters queued for the next render
    refreshCalls     \* number of triggerRefresh calls made so far

vars == <<stock, billingHistory, version, pc, doc, args, conflict, result,
          calls, now, analyticsCache, apc, areq, ascan, served, commitLog,
          refreshTrigger, updateQueue, refreshCalls>>

storeVars == <<stock, billingHistory, version, pc, doc, args, conflict,
               result, calls, commitLog>>

analyticsVars == <<analyticsCache, apc, areq, ascan, served>>

uiVars == <<refreshTrigger, updateQueue, refreshCalls>>

-----------------------------------------------------------------------------
(* Bounds of the model *)

MaxCalls == 2        \* store calls started in one behaviour
MaxLines == 2        \* line items in one billing request
MaxAddQty == 2       \* largest quantity one addToStock call adds
MaxLineQty == 2      \* largest quantity one line item or removal asks for

Procs == {"p1", "p2"}            \* concurrent HTTP requests to the store API
Meds == {"A", "B"}               \* medicine IDs
Batches == {"", "b1"}            \* batch numbers ("" = none given)

NoDoc == [stock |-> <<>>, billingHistory |-> <<>>, version |-> -1]
NoArgs == [op |-> "none"]
NoResult == [op |-> "none", error |-> "", medID |-> "", line |-> 0]

-----------------------------------------------------------------------------
(* Helpers over the stock array *)

\* A stock entry: medData.medID, batchNumber, quantity
Entry(medID, batchNumber, quantity) ==
    [medID |-> medID, batchNumber |-> batchNumber, quantity |-> quantity]

\* Array.prototype.findIndex(med => med.medData?.medID === medID); 0 is JS's -1
FindIndex(s, medID) ==
    LET hits == {j \in 1..Len(s) : s[j].medID = medID}
    IN  IF hits = {} THEN 0 ELSE CHOOSE j \in hits : \A k \in hits : j <= k

\* findIndex(med => med.medData?.medID === medID && med.batchNumber === batch)
FindIndexBatch(s, medID, batch) ==
    LET hits == {j \in 1..Len(s) : s[j].medID = medID /\ s[j].batchNumber = batch}
    IN  IF hits = {} THEN 0 ELSE CHOOSE j \in hits : \A k \in hits : j <= k

\* The matching policy of addToStock: by medID and batch when a batch number
\* is given, by medID alone otherwise.
ExistingIndex(s, medID, batchNumber) ==
    IF batchNumber # "" THEN FindIndexBatch(s, medID, batchNumber)
    ELSE FindIndex(s, medID)

\* store.stock.splice(i, 1)
Splice(s, i) == [j \in 1..(Len(s) - 1) |-> IF j < i THEN s[j] ELSE s[j + 1]]

\* store.stock[i].quantity = q
SetQuantity(s, i, q) == [s EXCEPT ![i].quantity = q]

\* The document as findOne returns it
Persisted == [stock |-> stock, billingHistory |-> billingHistory, version |-> version]

\* Every other request that has read the document and not yet written it
\* now holds a stale copy: a transaction among them meets a write conflict.
MarkConflict(p) ==
    [q \in Procs |-> IF q # p /\ pc[q] # "idle" THEN TRUE ELSE conflict[q]]

-----------------------------------------------------------------------------
(* Inputs *)

\* A line item of medSchemaBasedData: {medData: {medID}, quantity}
LineQtys == (-1)..MaxLineQty
Lines == [medID : Meds, quantity : LineQtys]

RECURSIVE SeqsUpTo(_, _)
SeqsUpTo(S, n) ==
    IF n = 0 THEN {<<>>}
    ELSE LET shorter == SeqsUpTo(S, n - 1)
         IN  shorter \cup {Append(s, x) : s \in {t \in shorter : Len(t) = n - 1}, x \in S}

ProductLists == SeqsUpTo(Lines, MaxLines)

TotalAmounts == {1500}           \* totalAmount of a request, in cents

AddQtys == 0..MaxAddQty          \* quantity of addToStock (0 is invalid)
RemoveQtys == 0..MaxLineQty      \* quantity of removeFromStock (0 is invalid)
UpdateQtys == (-1)..MaxAddQty    \* updates.quantity of updateStockItem

-----------------------------------------------------------------------------
(* createBilling *)

\* validateBilling: medSchemaBasedData must parse to a non-empty array.
\* Nothing about the line items themselves is looked at.
ValidateBilling(products) == Len(products) > 0

\* BillingLoop with the deduction left out: every line is validated and the
\* quantity of its entry stays as it was.
RECURSIVE BillingLoopNoDeduct(_, _, _)
BillingLoopNoDeduct(s, products, k) ==
    IF k > Len(products) THEN [error |-> "", medID |-> "", line |-> 0, stock |-> s]
    ELSE LET medIdToFind == products[k].medID
             stockIndex == FindIndex(s, medIdToFind)
         IN  IF stockIndex = 0
             THEN [error |-> "MEDICINE_NOT_FOUND", medID |-> medIdToFind, line |-> k,
                   stock |-> s]
             ELSE IF s[stockIndex].quantity < products[k].quantity
             THEN [error |-> "INSUFFICIENT_STOCK", medID |-> medIdToFind, line |-> k,
                   stock |-> s]
             ELSE BillingLoopNoDeduct(s, products, k + 1)

\* The loop "Validate and Deduct Stock" over the in-memory copy of the stock:
\* the error thrown, the medicine and the line it was thrown at, and the copy
\* as the loop left it.
RECURSIVE BillingLoop(_, _, _)
BillingLoop(s, products, k) ==
    IF k > Len(products) THEN [error |-> "", medID |-> "", line |-> 0, stock |-> s]
    ELSE LET medIdToFind == products[k].medID
             quantityToDeduct == products[k].quantity
             stockIndex == FindIndex(s, medIdToFind)
         IN  IF stockIndex = 0
             THEN [error |-> "MEDICINE_NOT_FOUND", medID |-> medIdToFind, line |-> k,
                   stock |-> s]
             ELSE IF s[stockIndex].quantity < quantityToDeduct
             THEN [error |-> "INSUFFICIENT_STOCK", medID |-> medIdToFind, line |-> k,
                   stock |-> s]
             ELSE LET q == s[stockIndex].quantity - quantityToDeduct
                      t == IF q <= 0 THEN Splice(s, stockIndex)
                                     ELSE SetQuantity(s, stockIndex, q)
                  IN  BillingLoop(t, products, k + 1)

\* The catch block of the controller: only INSUFFICIENT_STOCK is told apart;
\* every other error is answered with the generic message.
BillingResponse(error, medID) ==
    IF error = "" THEN [code |-> 201, message |-> "Bill created successfully", medID |-> ""]
    ELSE IF error = "INSUFFICIENT_STOCK"
    THEN [code |-> 400, message |-> "Insufficient stock for medicine ID", medID |-> medID]
    ELSE [code |-> 500, message |-> "Failed to process billing", medID |-> ""]

\* What a call ended with: the error thrown (none: ""), the medicine the
\* error names, the line item it was thrown at, and the HTTP response.
Outcome(op, error, medID, line, response) ==
    [op |-> op, error |-> error, medID |-> medID, line |-> line, response |-> response]

\* POST /billing stopped by validateBilling: no storage access at all.
BillingRejected(p, products) ==
    /\ pc[p] = "idle"
    /\ calls < MaxCalls
    /\ ~ValidateBilling(products)
    /\ calls' = calls + 1
    /\ result' = [result EXCEPT ![p] =
           Outcome("billing", "VALIDATION_ERROR", "", 0,
                   [code |-> 400, message |-> "Validation failed", medID |-> ""])]
    /\ args' = [args EXCEPT ![p] = [op |-> "billing", products |-> products]]
    /\ UNCHANGED <<stock, billingHistory, version, pc, doc, conflict,
                   commitLog, now, analyticsVars, uiVars>>

\* startSession, startTransaction, Stores.findOne(...).session(session)
CreateBillingFind(p, products, totalAmount) ==
    /\ pc[p] = "idle"
    /\ calls < MaxCalls
    /\ ValidateBilling(products)
    /\ calls' = calls + 1
    /\ pc' = [pc EXCEPT ![p] = "billing"]
    /\ doc' = [doc EXCEPT ![p] = Persisted]
    /\ args' = [args EXCEPT ![p] =
           [op |-> "billing", products |-> products, totalAmount |-> totalAmount]]
    /\ conflict' = [conflict EXCEPT ![p] = FALSE]
    /\ UNCHANGED <<stock, billingHistory, version, result, commitLog, now, analyticsVars, uiVars>>

\* The end of createBilling for the outcome `r` of the loop and the error the
\* call ends with: with `write`, store.save({session}) and commitTransaction
\* write the in-memory copy, whose history is `bills`; without, the catch
\* block aborts the transaction and nothing is written.
BillingSaveAs(p, r, error, write, bills) ==
    /\ pc[p] = "billing"
    /\ IF write
       THEN /\ stock' = r.stock
            /\ billingHistory' = bills
            /\ version' = version + 1
            /\ commitLog' = Append(commitLog, now)
            /\ conflict' = MarkConflict(p)
       ELSE UNCHANGED <<stock, billingHistory, version, commitLog, conflict>>
    /\ result' = [result EXCEPT ![p] =
           Outcome("billing", error, r.medID, r.line, BillingResponse(error, r.medID))]
    /\ pc' = [pc EXCEPT ![p] = "idle"]
    /\ doc' = [doc EXCEPT ![p] = NoDoc]
    /\ UNCHANGED <<args, calls, now, analyticsVars, uiVars>>

\* The record createBilling pushes: the products as sent, the total as sent,
\* createdAt = new Date()
BillingRecord(p) ==
    [productList |-> args[p].products, totalAmount |-> args[p].totalAmount,
     createdAt |-> now]

\* CreateBillingSave without the transaction: the copy is saved as the loop
\* left it when a line throws.
CreateBillingSaveNoAbort(p) ==
    LET r == BillingLoop(doc[p].stock, args[p].products, 1)
        error == IF r.error # "" THEN r.error
                 ELSE IF conflict[p] THEN "WRITE_CONFLICT" ELSE ""
    IN  /\ pc[p] = "billing"
        /\ IF r.error # ""
           THEN BillingSaveAs(p, r, error, TRUE, billingHistory)
           ELSE BillingSaveAs(p, r, error, error = "",
                              Append(doc[p].billingHistory, BillingRecord(p)))

\* CreateBillingSave without the transaction's isolation: a copy that is
\* stale by the time of save() is written all the same.
CreateBillingSaveNoConflict(p) ==
    LET r == BillingLoop(doc[p].stock, args[p].products, 1)
    IN  BillingSaveAs(p, r, r.error, r.error = "",
                      Append(billingHistory, BillingRecord(p)))

\* CreateBillingSave without the push of the record: the deducted stock is
\* saved and the history is left as it was loaded.
CreateBillingSaveNoRecord(p) ==
    LET r == BillingLoop(doc[p].stock, args[p].products, 1)
        error == IF r.error # "" THEN r.error
                 ELSE IF conflict[p] THEN "WRITE_CONFLICT" ELSE ""
    IN  BillingSaveAs(p, r, error, error = "", doc[p].billingHistory)

\* CreateBillingSave with unshift in place of push: the record goes first.
CreateBillingSaveUnshift(p) ==
    LET r == BillingLoop(doc[p].stock, args[p].products, 1)
        error == IF r.error # "" THEN r.error
                 ELSE IF conflict[p] THEN "WRITE_CONFLICT" ELSE ""
    IN  BillingSaveAs(p, r, error, error = "",
                      <<BillingRecord(p)>> \o doc[p].billingHistory)

\* The rest of createBilling: the loop, the push of the record, save and
\* commitTransaction, or abortTransaction in the catch block.  A transaction
\* whose document was written after its snapshot was taken is aborted by the
\* database with a write conflict; createBilling does not retry.
CreateBillingSave(p) ==
    LET r == BillingLoop(doc[p].stock, args[p].products, 1)
        error == IF r.error # "" THEN r.error
                 ELSE IF conflict[p] THEN "WRITE_CONFLICT" ELSE ""
    IN  BillingSaveAs(p, r, error, error = "",
                      Append(doc[p].billingHistory, BillingRecord(p)))

-----------------------------------------------------------------------------
(* Stock management: addToStock, removeFromStock, updateStockItem.          *)
(* save() outside a transaction sends only the modified paths.  A $set of  *)
(* one array element carries the loaded __v in its filter (no match: a     *)
(* VersionError); a $push increments __v without filtering on it; a        *)
(* splice rewrites the whole array, filtering on __v and incrementing it.  *)

\* The catch blocks of addMedicineToStock, removeMedicineFromStock and
\* updateStockItem in the controller.
StockResponse(op, error) ==
    IF error = "" THEN [code |-> 200, message |-> "Stock updated successfully", medID |-> ""]
    ELSE IF op = "remove" /\ error = "INSUFFICIENT_STOCK"
    THEN [code |-> 400, message |-> "Quantity exceeds available stock", medID |-> ""]
    ELSE IF op = "update" /\ error = "MEDICINE_NOT_FOUND"
    THEN [code |-> 404, message |-> "Medicine not found in stock", medID |-> ""]
    ELSE [code |-> 500, message |-> "Failed to update stock", medID |-> ""]

\* What every <Op>Find step does: findStoreByEmail, then hold the copy.
Find(p, a) ==
    /\ pc[p] = "idle"
    /\ calls < MaxCalls
    /\ calls' = calls + 1
    /\ pc' = [pc EXCEPT ![p] = a.op]
    /\ doc' = [doc EXCEPT ![p] = Persisted]
    /\ args' = [args EXCEPT ![p] = a]
    /\ conflict' = [conflict EXCEPT ![p] = FALSE]
    /\ UNCHANGED <<stock, billingHistory, version, result, commitLog, now, analyticsVars, uiVars>>

\* What every <Op>Save step does once the call has an outcome.
Finish(p, op, error, medID) ==
    /\ result' = [result EXCEPT ![p] =
           Outcome(op, error, medID, 0, StockResponse(op, error))]
    /\ pc' = [pc EXCEPT ![p] = "idle"]
    /\ doc' = [doc EXCEPT ![p] = NoDoc]
    /\ UNCHANGED <<billingHistory, args, commitLog, calls, now, analyticsVars, uiVars>>

\* The call throws before or at save(): nothing is written.
Throw(p, op, error, medID) ==
    /\ Finish(p, op, error, medID)
    /\ UNCHANGED <<stock, version, conflict>>

\* save() of a change to stock[i].quantity: $set with __v in the filter.
SaveQuantity(p, op, medID, i, q) ==
    IF version # doc[p].version
    THEN Throw(p, op, "VERSION_ERROR", medID)
    ELSE /\ stock' = SetQuantity(stock, i, q)
         /\ version' = version
         /\ conflict' = MarkConflict(p)
         /\ Finish(p, op, "", medID)

AddToStockFind(p, medID, batchNumber, quantity) ==
    Find(p, [op |-> "add", medID |-> medID, batchNumber |-> batchNumber,
             quantity |-> quantity])

AddToStockSave(p) ==
    /\ pc[p] = "add"
    /\ LET medID == args[p].medID
           batchNumber == args[p].batchNumber
           quantityNum == args[p].quantity
           existingIndex == ExistingIndex(doc[p].stock, medID, batchNumber)
       IN  IF quantityNum < 1
           THEN Throw(p, "add", "INVALID_QUANTITY", medID)
           ELSE IF existingIndex >= 1
           THEN SaveQuantity(p, "add", medID, existingIndex,
                             doc[p].stock[existingIndex].quantity + quantityNum)
           ELSE /\ stock' = Append(stock, Entry(medID, batchNumber, quantityNum))
                /\ version' = version + 1
                /\ conflict' = MarkConflict(p)
                /\ Finish(p, "add", "", medID)

RemoveFromStockFind(p, medID, quantity) ==
    Find(p, [op |-> "remove", medID |-> medID, quantity |-> quantity])

RemoveFromStockSave(p) ==
    /\ pc[p] = "remove"
    /\ LET medID == args[p].medID
           quantityNum == args[p].quantity
           existingIndex == FindIndex(doc[p].stock, medID)
           currentQuantity == doc[p].stock[existingIndex].quantity
           newQuantity == currentQuantity - quantityNum
       IN  IF quantityNum < 1
           THEN Throw(p, "remove", "INVALID_QUANTITY", medID)
           ELSE IF existingIndex < 1
           THEN Throw(p, "remove", "MEDICINE_NOT_FOUND", medID)
           ELSE IF quantityNum > currentQuantity
           THEN Throw(p, "remove", "INSUFFICIENT_STOCK", medID)
           ELSE IF newQuantity = 0
           THEN IF version # doc[p].version
                THEN Throw(p, "remove", "VERSION_ERROR", medID)
                ELSE /\ stock' = Splice(doc[p].stock, existingIndex)
                     /\ version' = version + 1
                     /\ conflict' = MarkConflict(p)
                     /\ Finish(p, "remove", "", medID)
           ELSE SaveQuantity(p, "remove", medID, existingIndex, newQuantity)

UpdateStockItemFind(p, medID, quantity) ==
    Find(p, [op |-> "update", medID |-> medID, quantity |-> quantity])

\* The schema declares quantity {type: Number, min: 0}: save() validates the
\* modified path and throws for a negative value; 0 passes.
UpdateStockItemSave(p) ==
    /\ pc[p] = "update"
    /\ LET medID == args[p].medID
           existingIndex == FindIndex(doc[p].stock, medID)
       IN  IF existingIndex < 1
           THEN Throw(p, "update", "MEDICINE_NOT_FOUND", medID)
           ELSE IF args[p].quantity < 0
           THEN Throw(p, "update", "VALIDATION_ERROR", medID)
           ELSE SaveQuantity(p, "update", medID, existingIndex, args[p].quantity)

-----------------------------------------------------------------------------
(* searchBillingHistory: reads the store, filters and sorts its in-memory  *)
(* copy of the history, and never saves.                                   *)

\* filteredBills.sort((a, b) => new Date(b.createdAt) - new Date(a.createdAt)):
\* a stable sort, newest first (insertion sort over the array).
RECURSIVE InsertByDate(_, _)
InsertByDate(sorted, bill) ==
    IF sorted = <<>> THEN <<bill>>
    ELSE IF Head(sorted).createdAt < bill.createdAt THEN <<bill>> \o sorted
    ELSE <<Head(sorted)>> \o InsertByDate(Tail(sorted), bill)

RECURSIVE SortNewestFirst(_)
SortNewestFirst(bills) ==
    IF bills = <<>> THEN <<>>
    ELSE InsertByDate(SortNewestFirst(SubSeq(bills, 1, Len(bills) - 1)), bills[Len(bills)])

SearchBillingHistory(p) ==
    /\ pc[p] = "idle"
    /\ calls < MaxCalls
    /\ calls' = calls + 1
    /\ LET filteredBills == SortNewestFirst(billingHistory)
       IN  result' = [result EXCEPT ![p] =
               Outcome("search", "", "", 0,
                       [code |-> 200, message |-> "", medID |-> "",
                        total |-> Len(filteredBills)])]
    /\ args' = [args EXCEPT ![p] = [op |-> "search"]]
    /\ UNCHANGED <<stock, billingHistory, version, pc, doc, conflict,
                   commitLog, now, analyticsVars, uiVars>>

-----------------------------------------------------------------------------
(* analyticsService.js: the cache and getSalesAnalytics.  Time is in        *)
(* milliseconds since the epoch, dates are read in UTC.                    *)

CACHE_TTL == 5 * 60 * 1000
HOUR == 60 * 60 * 1000
DAY == 24 * HOUR

MaxRequests == 3     \* getSalesAnalytics calls started in one behaviour
MaxTtlSpans == 1     \* the clock stops at MaxTtlSpans * CACHE_TTL

AProcs == {"r1", "r2"}           \* concurrent analytics requests

\* (customStart, customEnd) of the requests: one day
CustomWindows == {<<0, DAY - 1>>}

\* The windows of today and of yesterday on 2024-03-03
SundayWindows == {<<2 * DAY, 3 * DAY - 1>>, <<DAY, 2 * DAY - 1>>}

\* getCacheKey: email:start:end, for the one store
CacheKeys == CustomWindows \cup SundayWindows
getCacheKey(startDate, endDate) == <<startDate, endDate>>

NoEntry == [timestamp |-> -1]
NoRequest == [period |-> "none"]
NoScan == [current |-> "none"]

\* Math.round(n / d) for d > 0: halves round up
RoundDiv(n, d) == (2 * n + d) \div (2 * d)

\* Math.ceil(n / d) for d > 0
CeilDiv(n, d) == -((-n) \div d)

\* $sum of billingHistory.totalAmount over the records at the indexes I
RECURSIVE SumAmounts(_, _)
SumAmounts(bills, I) ==
    IF I = {} THEN 0
    ELSE LET i == CHOOSE j \in I : TRUE
         IN  bills[i].totalAmount + SumAmounts(bills, I \ {i})

\* $reduce over productList: the sum of the lines' quantities
RECURSIVE ItemsOf(_)
ItemsOf(productList) ==
    IF productList = <<>> THEN 0
    ELSE Head(productList).quantity + ItemsOf(Tail(productList))

\* $sum of the reduced productList over the records at the indexes I
RECURSIVE SumItems(_, _)
SumItems(bills, I) ==
    IF I = {} THEN 0
    ELSE LET i == CHOOSE j \in I : TRUE
         IN  ItemsOf(bills[i].productList) + SumItems(bills, I \ {i})

\* The $match stage: records with startDate <= createdAt <= endDate
Matching(bills, startDate, endDate) ==
    {i \in 1..Len(bills) : bills[i].createdAt >= startDate /\ bills[i].createdAt <= endDate}

\* getSalesForPeriodAggregated with $lt in place of $lte, and an average
\* that is cut off instead of rounded
getSalesForPeriodExclusive(bills, startDate, endDate) ==
    LET I == Matching(bills, startDate, endDate - 1)
        totalSales == SumAmounts(bills, I)
        transactionCount == Cardinality(I)
    IN  IF I = {}
        THEN [totalSales |-> 0, transactionCount |-> 0, itemsSold |-> 0,
              averageTransaction |-> 0]
        ELSE [totalSales |-> totalSales,
              transactionCount |-> transactionCount,
              itemsSold |-> SumItems(bills, I),
              averageTransaction |-> totalSales \div transactionCount]

\* getSalesForPeriodAggregated; amounts are in cents
getSalesForPeriodAggregated(bills, startDate, endDate) ==
    LET I == Matching(bills, startDate, endDate)
        totalSales == SumAmounts(bills, I)
        transactionCount == Cardinality(I)
    IN  IF I = {}
        THEN [totalSales |-> 0, transactionCount |-> 0, itemsSold |-> 0,
              averageTransaction |-> 0]
        ELSE [totalSales |-> totalSales,
              transactionCount |-> transactionCount,
              itemsSold |-> SumItems(bills, I),
              averageTransaction |-> IF transactionCount > 0
                                     THEN RoundDiv(totalSales, transactionCount)
                                     ELSE 0]

\* getHourlyBreakdownAggregated: the 24 hours of the day of `date`
getHourlyBreakdownAggregated(bills, date) ==
    LET dayStart == date - (date % DAY)
        dayEnd == dayStart + DAY - 1
        I == Matching(bills, dayStart, dayEnd)
        In(hour) == {i \in I : (bills[i].createdAt % DAY) \div HOUR = hour}
    IN  [h \in 1..24 |->
            [hour |-> h - 1,
             sales |-> SumAmounts(bills, In(h - 1)),
             transactions |-> Cardinality(In(h - 1))]]

\* getDailyBreakdownAggregated: one bucket for startDate and for every whole
\* day after it up to endDate; a bucket collects the records of the window
\* that fall on its calendar day.
getDailyBreakdownAggregated(bills, startDate, endDate) ==
    LET I == Matching(bills, startDate, endDate)
        count == ((endDate - startDate) \div DAY) + 1
        On(day) == {i \in I : bills[i].createdAt \div DAY = day}
    IN  [n \in 1..count |->
            LET current == startDate + (n - 1) * DAY
            IN  [date |-> current \div DAY,
                 sales |-> SumAmounts(bills, On(current \div DAY)),
                 transactions |-> Cardinality(On(current \div DAY))]]

\* The custom branch of getSalesAnalytics: window, chart type and
\* comparison window of explicit dates.
ResolveCustom(customStart, customEnd) ==
    LET daysDiff == CeilDiv(customEnd - customStart, DAY)
    IN  [period |-> "custom",
         startDate |-> customStart,
         endDate |-> customEnd,
         chartType |-> IF daysDiff <= 1 THEN "hourly"
                       ELSE IF daysDiff <= 31 THEN "daily" ELSE "monthly",
         comparisonStart |-> customStart - daysDiff * DAY,
         comparisonEnd |-> customEnd - daysDiff * DAY]

\* getFromCache without the TTL: an entry is returned however old it is
CacheHitNoTtl(key) ==
    analyticsCache[key] # NoEntry

\* getFromCache: the entry's data while now - timestamp < CACHE_TTL
CacheHit(key) ==
    /\ analyticsCache[key] # NoEntry
    /\ now - analyticsCache[key].timestamp < CACHE_TTL

\* One returned value: the request's key, when it was returned, whether it
\* was answered from the cache, and the value.
Served(key, fromCache, data) ==
    [key |-> key, at |-> now, fromCache |-> fromCache, data |-> data]

\* getSalesAnalytics up to its first await, answered from the cache
GetSalesAnalyticsCached(r, customStart, customEnd) ==
    /\ apc[r] = "idle"
    /\ Len(served) + Cardinality({q \in AProcs : apc[q] # "idle"}) < MaxRequests
    /\ LET req == ResolveCustom(customStart, customEnd)
           cacheKey == getCacheKey(req.startDate, req.endDate)
       IN  /\ CacheHit(cacheKey)
           /\ served' = Append(served,
                  Served(cacheKey, TRUE, analyticsCache[cacheKey].data))
    /\ UNCHANGED <<analyticsCache, apc, areq, ascan, now, storeVars, uiVars>>

\* getSalesAnalytics up to its first await, on a miss: getFromCache deletes
\* the key and the first aggregation is sent to the database.
GetSalesAnalyticsMiss(r, customStart, customEnd) ==
    /\ apc[r] = "idle"
    /\ Len(served) + Cardinality({q \in AProcs : apc[q] # "idle"}) < MaxRequests
    /\ LET req == ResolveCustom(customStart, customEnd)
           cacheKey == getCacheKey(req.startDate, req.endDate)
       IN  /\ ~CacheHit(cacheKey)
           /\ analyticsCache' = [analyticsCache EXCEPT ![cacheKey] = NoEntry]
           /\ areq' = [areq EXCEPT ![r] = req]
    /\ apc' = [apc EXCEPT ![r] = "current"]
    /\ ascan' = [ascan EXCEPT ![r] = NoScan]
    /\ UNCHANGED <<served, now, storeVars, uiVars>>

\* ScanCurrent with a setCache of what is known so far
ScanCurrentCaching(r) ==
    /\ apc[r] = "current"
    /\ LET current == getSalesForPeriodAggregated(billingHistory,
                           areq[r].startDate, areq[r].endDate)
       IN  /\ ascan' = [ascan EXCEPT ![r] = [current |-> current]]
           /\ analyticsCache' =
                  [analyticsCache EXCEPT ![getCacheKey(areq[r].startDate, areq[r].endDate)] =
                      [data |-> [current |-> current], timestamp |-> now]]
    /\ apc' = [apc EXCEPT ![r] = "comparison"]
    /\ UNCHANGED <<areq, served, now, storeVars, uiVars>>

\* The database runs the aggregation of the current period
ScanCurrent(r) ==
    /\ apc[r] = "current"
    /\ ascan' = [ascan EXCEPT ![r] =
           [current |-> getSalesForPeriodAggregated(billingHistory,
                            areq[r].startDate, areq[r].endDate)]]
    /\ apc' = [apc EXCEPT ![r] = "comparison"]
    /\ UNCHANGED <<analyticsCache, areq, served, now, storeVars, uiVars>>

\* The database runs the aggregation of the comparison period
ScanComparison(r) ==
    /\ apc[r] = "comparison"
    /\ ascan' = [ascan EXCEPT ![r] =
           [current |-> ascan[r].current,
            comparison |-> getSalesForPeriodAggregated(billingHistory,
                               areq[r].comparisonStart, areq[r].comparisonEnd)]]
    /\ apc' = [apc EXCEPT ![r] = "chart"]
    /\ UNCHANGED <<analyticsCache, areq, served, now, storeVars, uiVars>>

\* The database runs the chart aggregation; getSalesAnalytics then computes
\* the growth, builds the result, caches it under Date.now() and returns it.
ScanChartAndCache(r) ==
    /\ apc[r] = "chart"
    /\ LET currentPeriod == ascan[r].current
           comparisonPeriod == ascan[r].comparison
           chartData == IF areq[r].chartType = "hourly"
                        THEN getHourlyBreakdownAggregated(billingHistory, areq[r].startDate)
                        ELSE getDailyBreakdownAggregated(billingHistory,
                                 areq[r].startDate, areq[r].endDate)
           growthPercentage ==
               IF comparisonPeriod.totalSales > 0
               THEN RoundDiv((currentPeriod.totalSales - comparisonPeriod.totalSales) * 100,
                             comparisonPeriod.totalSales)
               ELSE 0
           data == [period |-> [name |-> areq[r].period, start |-> areq[r].startDate,
                                end |-> areq[r].endDate],
                    current |-> currentPeriod,
                    comparison |-> comparisonPeriod,
                    growth |-> [percentage |-> growthPercentage,
                                isPositive |-> growthPercentage >= 0],
                    chartType |-> areq[r].chartType,
                    chartData |-> chartData]
           cacheKey == getCacheKey(areq[r].startDate, areq[r].endDate)
       IN  /\ analyticsCache' = [analyticsCache EXCEPT ![cacheKey] =
                  [data |-> data, timestamp |-> now]]
           /\ served' = Append(served, Served(cacheKey, FALSE, data))
    /\ apc' = [apc EXCEPT ![r] = "idle"]
    /\ areq' = [areq EXCEPT ![r] = NoRequest]
    /\ ascan' = [ascan EXCEPT ![r] = NoScan]
    /\ UNCHANGED <<now, storeVars, uiVars>>

\* The instants the clock is read at: each multiple of the TTL and the
\* millisecond after it.
TimePoints ==
    {k * CACHE_TTL + e : k \in 0..MaxTtlSpans, e \in {0, 1}}

\* Time passes
Tick(t) ==
    /\ t > now
    /\ now' = t
    /\ UNCHANGED <<storeVars, analyticsVars, uiVars>>

-----------------------------------------------------------------------------
(* The store API *)

StoreNext ==
    \E p \in Procs :
        \/ \E products \in ProductLists : BillingRejected(p, products)
        \/ \E products \in ProductLists, totalAmount \in TotalAmounts :
               CreateBillingFind(p, products, totalAmount)
        \/ CreateBillingSave(p)
        \/ \E medID \in Meds, batchNumber \in Batches, quantity \in AddQtys :
               AddToStockFind(p, medID, batchNumber, quantity)
        \/ AddToStockSave(p)
        \/ \E medID \in Meds, quantity \in RemoveQtys : RemoveFromStockFind(p, medID, quantity)
        \/ RemoveFromStockSave(p)
        \/ \E medID \in Meds, quantity \in UpdateQtys : UpdateStockItemFind(p, medID, quantity)
        \/ UpdateStockItemSave(p)
        \/ SearchBillingHistory(p)

\* The ledger a store holds after the addToStock calls of `adds`, made one
\* after the other on an empty stock.
RECURSIVE StockAfter(_)
StockAfter(adds) ==
    IF adds = <<>> THEN <<>>
    ELSE LET s == StockAfter(SubSeq(adds, 1, Len(adds) - 1))
             a == adds[Len(adds)]
             i == ExistingIndex(s, a.medID, a.batchNumber)
         IN  IF i >= 1 THEN SetQuantity(s, i, s[i].quantity + a.quantity)
             ELSE Append(s, a)

\* The stocking histories the behaviours start from.
InitialAdds ==
    { <<>>,
      <<Entry("A", "", 2)>>,
      <<Entry("A", "", 1), Entry("B", "", 2)>>,
      <<Entry("A", "", 1), Entry("A", "b1", 2)>>,
      <<Entry("B", "b1", 1), Entry("B", "b1", 1)>> }

\* The stock page as mounted: useState(0), nothing queued
UiInit ==
    /\ refreshTrigger = 0
    /\ updateQueue = 0
    /\ refreshCalls = 0

\* A store some time after signup: stocked by the earlier addToStock calls
\* of one of `stockings`, no bill yet, nothing in flight.
InitFrom(stockings) ==
    /\ stock \in {StockAfter(adds) : adds \in stockings}
    /\ billingHistory = <<>>
    /\ version = 0
    /\ pc = [p \in Procs |-> "idle"]
    /\ doc = [p \in Procs |-> NoDoc]
    /\ args = [p \in Procs |-> NoArgs]
    /\ conflict = [p \in Procs |-> FALSE]
    /\ result = [p \in Procs |-> NoResult]
    /\ calls = 0
    /\ now = 0
    /\ commitLog = <<>>
    /\ analyticsCache = [k \in CacheKeys |-> NoEntry]
    /\ apc = [r \in AProcs |-> "idle"]
    /\ areq = [r \in AProcs |-> NoRequest]
    /\ ascan = [r \in AProcs |-> NoScan]
    /\ served = <<>>
    /\ UiInit

Init == InitFrom(InitialAdds)

Next == StoreNext

Spec == Init /\ [][Next]_vars

-----------------------------------------------------------------------------
(* Analytics requests next to billing calls, with time passing *)

\* The bills rung up while analytics requests are served
AnalyticsProducts == {<<[medID |-> "A", quantity |-> 1]>>}

\* The one request at a time that rings them up
Tills == {"p1"}

AnalyticsNext ==
    \/ \E p \in Tills :
           \/ \E products \in AnalyticsProducts, totalAmount \in TotalAmounts :
                  CreateBillingFind(p, products, totalAmount)
           \/ CreateBillingSave(p)
    \/ \E r \in AProcs :
           \/ \E w \in CustomWindows : GetSalesAnalyticsCached(r, w[1], w[2])
           \/ \E w \in CustomWindows : GetSalesAnalyticsMiss(r, w[1], w[2])
           \/ ScanCurrent(r)
           \/ ScanComparison(r)
           \/ ScanChartAndCache(r)
    \/ \E t \in TimePoints : Tick(t)

AnalyticsInit == InitFrom({<<Entry("A", "", 2)>>})

SpecAnalytics == AnalyticsInit /\ [][AnalyticsNext]_vars

-----------------------------------------------------------------------------
(* N concurrent billing calls for the same quantity of one medicine *)

OversellStart == 2   \* S: the quantity the entry starts with

OversellInit == InitFrom({<<Entry("A", "", OversellStart)>>, <<Entry("A", "", OversellStart + 1)>>})

OversellNext ==
    \E p \in Procs :
        \/ \E quantity \in 1..MaxLineQty, totalAmount \in TotalAmounts :
               CreateBillingFind(p, <<[medID |-> "A", quantity |-> quantity]>>, totalAmount)
        \/ CreateBillingSave(p)

SpecOversell == OversellInit /\ [][OversellNext]_vars

-----------------------------------------------------------------------------
(* Properties *)

LineErrors == {"MEDICINE_NOT_FOUND", "INSUFFICIENT_STOCK"}

\* The step in which p's createBilling call ends
BillingEnds(p) == pc[p] = "billing" /\ pc'[p] = "idle"

\* p's last call was a createBilling call and has ended
Billed(p) == pc[p] = "idle" /\ result[p].op = "billing" /\ args[p].op = "billing"

\* The sum of the quantities of the lines of `products` that name medID
RECURSIVE Requested(_, _)
Requested(products, medID) ==
    IF products = <<>> THEN 0
    ELSE (IF Head(products).medID = medID THEN Head(products).quantity ELSE 0)
         + Requested(Tail(products), medID)

\* The sum of the quantities of the entries of `s` that hold medID
RECURSIVE Held(_, _)
Held(s, medID) ==
    IF s = <<>> THEN 0
    ELSE (IF Head(s).medID = medID THEN Head(s).quantity ELSE 0) + Held(Tail(s), medID)

\* The quantity of the entry (medID, batchNumber) of `s`; 0 when it is gone
QuantityOf(s, medID, batchNumber) ==
    LET i == FindIndexBatch(s, medID, batchNumber)
    IN  IF i = 0 THEN 0 ELSE s[i].quantity

\* Some line of `products` asks for a quantity that is not positive
InvalidLine(products) == \E k \in 1..Len(products) : products[k].quantity <= 0

\* The medicines the lines of `products` name
Named(products) == {products[k].medID : k \in 1..Len(products)}

\* C1: a createBilling call that ends with MEDICINE_NOT_FOUND or
\* INSUFFICIENT_STOCK, at whichever line, leaves the persisted stock, history
\* and version exactly as they were.
C1_Atomicity ==
    [][\A p \in Procs :
          (BillingEnds(p) /\ result'[p].error \in LineErrors)
              => (stock' = stock /\ billingHistory' = billingHistory /\ version' = version)]_vars

\* A call has failed at its second line, after its first line had passed and
\* been deducted in memory, and the ledger is still stocked.
C1_Witness ==
    \E p \in Procs :
        /\ Billed(p)
        /\ result[p].error \in LineErrors
        /\ result[p].line = 2
        /\ args[p].products[1].quantity > 0
        /\ stock # <<>>

\* All billing calls so far asked for the same quantity of medicine A
SameRequest(Q) ==
    /\ \A p \in Procs : args[p] # NoArgs => args[p].products = <<[medID |-> "A", quantity |-> Q]>>
    /\ \A i \in 1..Len(billingHistory) :
           billingHistory[i].productList = <<[medID |-> "A", quantity |-> Q]>>

\* C2 as stated: of the calls that each ask for Q of an entry that started at
\* S, at most S \div Q succeed and every other one fails with
\* INSUFFICIENT_STOCK.
C2_Original ==
    \A Q \in 1..MaxLineQty :
        SameRequest(Q) =>
            \A p \in Procs : Billed(p) => result[p].error \in {"", "INSUFFICIENT_STOCK"}

\* C2 amended: at most S \div Q of the calls succeed; a call that does not
\* succeed fails with INSUFFICIENT_STOCK, with MEDICINE_NOT_FOUND (the entry
\* was sold out and removed by earlier calls), or with a write conflict (its
\* transaction ran next to one that committed first).
C2_NoOversell ==
    \A Q \in 1..MaxLineQty :
        SameRequest(Q) =>
            /\ \A p \in Procs :
                   Billed(p) => result[p].error \in
                       {"", "INSUFFICIENT_STOCK", "MEDICINE_NOT_FOUND", "WRITE_CONFLICT"}
            /\ \E S \in {OversellStart, OversellStart + 1} :
                   /\ Held(stock, "A") + Q * Len(billingHistory) = S
                   /\ Len(billingHistory) <= S \div Q
            /\ Held(stock, "A") >= 0

\* Two calls for the same quantity have ended, one with a bill and one
\* without, the second because the first emptied the entry or overtook it.
C2_Witness ==
    /\ \E Q \in 1..MaxLineQty : SameRequest(Q)
    /\ Len(billingHistory) = 1
    /\ \A p \in Procs : Billed(p)
    /\ \E p \in Procs : result[p].error \in {"MEDICINE_NOT_FOUND", "WRITE_CONFLICT"}

\* The entries of the ledger `s` that a step to the ledger `t` touches: those
\* whose quantity it changes, or that it removes
Touched(s, t) ==
    {i \in 1..Len(s) : QuantityOf(t, s[i].medID, s[i].batchNumber) # s[i].quantity}

C4_NoZeroEntries ==
    \A i \in 1..Len(stock) : stock[i].quantity > 0

\* C5 as stated: a call ends with MEDICINE_NOT_FOUND(id) only when the ledger
\* it loaded has no entry for id, and with INSUFFICIENT_STOCK(id) when it has
\* one that holds less than the call's lines ask for; a call no line of which
\* asks for more than its entry holds ends with neither.
C5_Classification ==
    [][\A p \in Procs :
          BillingEnds(p) =>
              LET ledger == doc[p].stock
                  products == args[p].products
                  r == result'[p]
                  i == FindIndex(ledger, r.medID)
              IN  /\ r.error = "MEDICINE_NOT_FOUND" => i = 0
                  /\ r.error = "INSUFFICIENT_STOCK" =>
                         (i # 0 /\ ledger[i].quantity < Requested(products, r.medID))
                  /\ (\A m \in Named(products) :
                          /\ FindIndex(ledger, m) # 0
                          /\ Requested(products, m) <= ledger[FindIndex(ledger, m)].quantity)
                         => r.error \notin LineErrors]_vars

\* C6: the persisted history only grows at its end: a step leaves it as it
\* was or appends one record; the end of a successful createBilling call
\* appends exactly one, the end of a failed one none, and no other step
\* changes it.
C6_AppendOnly ==
    [][/\ Len(billingHistory') >= Len(billingHistory)
       /\ SubSeq(billingHistory', 1, Len(billingHistory)) = billingHistory
       /\ \A p \in Procs :
              /\ (BillingEnds(p) /\ result'[p].error = "")
                     => Len(billingHistory') = Len(billingHistory) + 1
              /\ (BillingEnds(p) /\ result'[p].error # "")
                     => billingHistory' = billingHistory
       /\ (\A p \in Procs : ~BillingEnds(p)) => billingHistory' = billingHistory]_vars

\* A second, different record has been appended behind the first.
C6_Witness ==
    /\ Len(billingHistory) = 2
    /\ billingHistory[1] # billingHistory[2]

\* C7 as stated: the response to a call that failed at a line item names
\* the medicine of that line.
C7_FailureNamesMedicine ==
    \A p \in Procs :
        (Billed(p) /\ result[p].error \in LineErrors)
            => result[p].response.medID = result[p].medID

\* C8 as stated: a request with a line whose quantity is not a positive
\* integer is answered INVALID_QUANTITY before the store is read and changes
\* neither ledger nor history, and no billing call raises the quantity of an
\* entry.
C8_InvalidQuantityRejected ==
    [][\A p \in Procs :
          /\ (pc[p] = "idle" /\ args'[p] # args[p] /\ args'[p].op = "billing"
                  /\ InvalidLine(args'[p].products) /\ Len(args'[p].products) > 0)
                 => (pc'[p] = "idle" /\ result'[p].error = "INVALID_QUANTITY")
          /\ pc'[p] = "billing" => ~InvalidLine(args'[p].products)
          /\ BillingEnds(p) =>
                 \A i \in 1..Len(stock') :
                     stock'[i].quantity
                         <= QuantityOf(stock, stock'[i].medID, stock'[i].batchNumber)]_vars

-----------------------------------------------------------------------------
(* The analytics cache *)

\* The results computed and cached for `key` so far, as indexes of `served`
Cached(key) ==
    {i \in 1..Len(served) : ~served[i].fromCache /\ served[i].key = key}

\* The last of them
LastCached(key) ==
    CHOOSE i \in Cached(key) : \A j \in Cached(key) : j <= i

\* Request r starts scanning in this step: its call missed the cache
StartsScan(r) == apc[r] = "idle" /\ apc'[r] = "current"

\* The key of the call of r that starts scanning in this step
ScanKey(r) == getCacheKey(areq'[r].startDate, areq'[r].endDate)

\* A call is answered from the cache in this step
AnsweredFromCache ==
    /\ Len(served') = Len(served) + 1
    /\ served'[Len(served')].fromCache

\* C9 as stated: a call made less than the TTL after a result was cached
\* for its key does not scan and returns that result; a call made when every
\* result cached for its key is at least the TTL old scans.
C9_Original ==
    [][/\ \A r \in AProcs :
              StartsScan(r) =>
                  \A i \in Cached(ScanKey(r)) : now - served[i].at >= CACHE_TTL
       /\ AnsweredFromCache =>
              LET answer == served'[Len(served')]
              IN  /\ \A i \in Cached(answer.key) :
                         now - served[i].at < CACHE_TTL => answer.data = served[i].data
                  /\ \E i \in Cached(answer.key) : now - served[i].at < CACHE_TTL]_vars

\* C9, amended: a call made less than the TTL after the latest result was
\* cached for its key does not scan and returns that latest result; a call
\* made when no result is cached for its key, or the latest is at least the
\* TTL old, scans.
C9_CacheConsistency ==
    [][/\ \A r \in AProcs :
              StartsScan(r) =>
                  \/ Cached(ScanKey(r)) = {}
                  \/ now - served[LastCached(ScanKey(r))].at >= CACHE_TTL
       /\ AnsweredFromCache =>
              LET answer == served'[Len(served')]
              IN  /\ Cached(answer.key) # {}
                  /\ now - served[LastCached(answer.key)].at < CACHE_TTL
                  /\ answer.data = served[LastCached(answer.key)].data]_vars

\* A result was cached, a later call for the same key was answered with it
\* from the cache within the TTL, and a call after the TTL scanned again.
C9_Witness ==
    \E i, j, k \in 1..Len(served) :
        /\ i < j /\ j < k
        /\ ~served[i].fromCache
        /\ served[j].fromCache /\ served[j].key = served[i].key
        /\ served[j].at - served[i].at < CACHE_TTL
        /\ served[j].data = served[i].data
        /\ ~served[k].fromCache /\ served[k].key = served[i].key
        /\ served[k].at - served[i].at >= CACHE_TTL

\* The records of the window of `key` committed at or before time t
CommittedBy(key, t) ==
    {j \in 1..Len(billingHistory) :
        /\ commitLog[j] <= t
        /\ billingHistory[j].createdAt >= key[1]
        /\ billingHistory[j].createdAt <= key[2]}

\* C10 as stated, for the results answered from the cache: a result returned
\* at time t counts every record of its window committed at or before
\* t - CACHE_TTL.
C10_BoundedStaleness ==
    \A i \in 1..Len(served) :
        served[i].fromCache =>
            served[i].data.current.transactionCount
                >= Cardinality(CommittedBy(served[i].key, served[i].at - CACHE_TTL))

-----------------------------------------------------------------------------
(* The calendar of Date: days are counted from 2024-03-01, the day that      *)
(* starts at time 0; months are 0..11 as in JavaScript.  Local time is UTC. *)

Years == 2022..2025      \* the years the calendar covers

IsLeap(y) == (y % 4 = 0 /\ y % 100 # 0) \/ y % 400 = 0

DaysInYear(y) == IF IsLeap(y) THEN 366 ELSE 365

DaysInMonth(y, m) ==
    IF m = 1 THEN (IF IsLeap(y) THEN 29 ELSE 28)
    ELSE IF m \in {3, 5, 8, 10} THEN 30 ELSE 31

\* The day number of January 1 of year y
RECURSIVE YearStart(_)
YearStart(y) ==
    IF y = 2024 THEN -60
    ELSE IF y > 2024 THEN YearStart(y - 1) + DaysInYear(y - 1)
    ELSE YearStart(y + 1) - DaysInYear(y)

\* The day number of the 1st of month m of year y
RECURSIVE MonthStart(_, _)
MonthStart(y, m) ==
    IF m = 0 THEN YearStart(y) ELSE MonthStart(y, m - 1) + DaysInMonth(y, m - 1)

\* new Date(y, m, d) without the carry of a month out of range into the year
MakeDateNoCarry(y, m, d) == MonthStart(y, m % 12) + (d - 1)

\* new Date(y, m, d): the day number, months and days out of range carried
\* over as Date does
MakeDate(y, m, d) == MonthStart(y + (m \div 12), m % 12) + (d - 1)

getFullYear(day) ==
    CHOOSE y \in Years : YearStart(y) <= day /\ day < YearStart(y) + DaysInYear(y)

getMonth(day) ==
    LET y == getFullYear(day)
    IN  CHOOSE m \in 0..11 :
            MonthStart(y, m) <= day /\ day < MonthStart(y, m) + DaysInMonth(y, m)

getDate(day) == day - MonthStart(getFullYear(day), getMonth(day)) + 1

\* 0 is Sunday; 2024-03-01 is a Friday
getDay(day) == (day + 5) % 7

\* The day number of a time in milliseconds
DayOf(t) == t \div DAY

\* Months counted from year 0, of a time in milliseconds
MonthIndex(t) == getFullYear(DayOf(t)) * 12 + getMonth(DayOf(t))

\* getMonthlyBreakdownAggregated: one bucket for the month of startDate and
\* for every month after it up to the month of endDate; a bucket collects
\* the records of the window that fall in its month.
getMonthlyBreakdownAggregated(bills, startDate, endDate) ==
    LET I == Matching(bills, startDate, endDate)
        count == MonthIndex(endDate) - MonthIndex(startDate) + 1
        In(k) == {i \in I : MonthIndex(bills[i].createdAt) = k}
    IN  [n \in 1..count |->
            LET k == MonthIndex(startDate) + (n - 1)
            IN  [year |-> k \div 12,
                 month |-> k % 12,
                 sales |-> SumAmounts(bills, In(k)),
                 transactions |-> Cardinality(In(k))]]

-----------------------------------------------------------------------------
(* The aggregation functions on their own, over bounded billing histories *)

MaxBills == 2     \* records in a billing history

\* createdAt of the records: around the two ends of the day that starts at 0
AggTimes == {-1, 0, DAY - 1, DAY}

\* totalAmount of the records, in cents
AggAmounts == {1500, 1001}

\* productList of the records
AggProductLists ==
    {<<[medID |-> "A", quantity |-> 1]>>,
     <<[medID |-> "A", quantity |-> 2], [medID |-> "B", quantity |-> 1]>>}

AggBills ==
    [productList : AggProductLists, totalAmount : AggAmounts, createdAt : AggTimes]

\* The billing histories the functions are applied to: createBilling appends
\* with createdAt = new Date(), so records are in the order of their dates
AggHistories ==
    {h \in SeqsUpTo(AggBills, MaxBills) :
        \A i \in 1..Len(h) - 1 : h[i].createdAt <= h[i + 1].createdAt}

\* The windows [startDate, endDate] asked for
AggWindows ==
    {<<0, DAY - 1>>, <<0, 0>>, <<-1, DAY>>, <<DAY, 2 * DAY - 1>>,
     <<-(DAY \div 2), DAY + (DAY \div 4)>>}

\* One call of getSalesForPeriodAggregated by request r
CallGetSalesForPeriod(r, startDate, endDate) ==
    /\ apc[r] = "idle"
    /\ areq' = [areq EXCEPT ![r] =
           [period |-> "aggregate", startDate |-> startDate, endDate |-> endDate]]
    /\ ascan' = [ascan EXCEPT ![r] =
           [current |-> getSalesForPeriodAggregated(billingHistory, startDate, endDate)]]
    /\ UNCHANGED <<analyticsCache, apc, served, now, storeVars, uiVars>>

\* One call of getHourlyBreakdownAggregated by request r
CallGetHourlyBreakdown(r, date) ==
    /\ apc[r] = "idle"
    /\ areq' = [areq EXCEPT ![r] = [period |-> "hourly", startDate |-> date]]
    /\ ascan' = [ascan EXCEPT ![r] =
           [chartData |-> getHourlyBreakdownAggregated(billingHistory, date)]]
    /\ UNCHANGED <<analyticsCache, apc, served, now, storeVars, uiVars>>

\* One call of getDailyBreakdownAggregated by request r
CallGetDailyBreakdown(r, startDate, endDate) ==
    /\ apc[r] = "idle"
    /\ areq' = [areq EXCEPT ![r] =
           [period |-> "daily", startDate |-> startDate, endDate |-> endDate]]
    /\ ascan' = [ascan EXCEPT ![r] =
           [chartData |-> getDailyBreakdownAggregated(billingHistory, startDate, endDate)]]
    /\ UNCHANGED <<analyticsCache, apc, served, now, storeVars, uiVars>>

\* One call of getMonthlyBreakdownAggregated by request r
CallGetMonthlyBreakdown(r, startDate, endDate) ==
    /\ apc[r] = "idle"
    /\ areq' = [areq EXCEPT ![r] =
           [period |-> "monthly", startDate |-> startDate, endDate |-> endDate]]
    /\ ascan' = [ascan EXCEPT ![r] =
           [chartData |-> getMonthlyBreakdownAggregated(billingHistory, startDate, endDate)]]
    /\ UNCHANGED <<analyticsCache, apc, served, now, storeVars, uiVars>>

\* A JavaScript number: a finite value, or NaN, Infinity or -Infinity
Finite(value) == [finite |-> TRUE, value |-> value]
NotFinite(kind) == [finite |-> FALSE, value |-> kind]

\* n / d * 100 rounded, as JavaScript computes it: a division by 0 gives
\* NaN or an infinity, and Math.round keeps them
RoundPercent(n, d) ==
    IF d = 0
    THEN NotFinite(IF n = 0 THEN "NaN" ELSE IF n > 0 THEN "Infinity" ELSE "-Infinity")
    ELSE Finite(RoundDiv(n * 100, d))

\* The growth computed without the test of comparisonPeriod.totalSales
growthUnguarded(currentPeriod, comparisonPeriod) ==
    RoundPercent(currentPeriod.totalSales - comparisonPeriod.totalSales,
                 comparisonPeriod.totalSales)

\* growthPercentage of getSalesAnalytics; the comparison period is never
\* null, every period that is resolved has one
growthPercentage(currentPeriod, comparisonPeriod) ==
    IF comparisonPeriod.totalSales > 0
    THEN RoundPercent(currentPeriod.totalSales - comparisonPeriod.totalSales,
                      comparisonPeriod.totalSales)
    ELSE Finite(0)

\* The two aggregations of a window and of the window one day before it,
\* and the growth getSalesAnalytics computes from them
CallGrowth(r, startDate, endDate) ==
    /\ apc[r] = "idle"
    /\ areq' = [areq EXCEPT ![r] =
           [period |-> "growth", startDate |-> startDate, endDate |-> endDate]]
    /\ LET currentPeriod == getSalesForPeriodAggregated(billingHistory, startDate, endDate)
           comparisonPeriod == getSalesForPeriodAggregated(billingHistory,
                                   startDate - DAY, endDate - DAY)
           percentage == growthPercentage(currentPeriod, comparisonPeriod)
       IN  ascan' = [ascan EXCEPT ![r] =
               [current |-> currentPeriod, comparison |-> comparisonPeriod,
                growth |-> [percentage |-> percentage,
                            isPositive |-> IF percentage.finite
                                           THEN percentage.value >= 0
                                           ELSE percentage.value = "Infinity"]]]
    /\ UNCHANGED <<analyticsCache, apc, served, now, storeVars, uiVars>>

\* A store whose billing history is one of AggHistories, nothing in flight
AggregationInit ==
    /\ billingHistory \in AggHistories
    /\ commitLog = [i \in 1..Len(billingHistory) |-> billingHistory[i].createdAt]
    /\ stock = <<>>
    /\ version = Len(billingHistory)
    /\ pc = [p \in Procs |-> "idle"]
    /\ doc = [p \in Procs |-> NoDoc]
    /\ args = [p \in Procs |-> NoArgs]
    /\ conflict = [p \in Procs |-> FALSE]
    /\ result = [p \in Procs |-> NoResult]
    /\ calls = 0
    /\ now = DAY
    /\ analyticsCache = [k \in CacheKeys |-> NoEntry]
    /\ apc = [r \in AProcs |-> "idle"]
    /\ areq = [r \in AProcs |-> NoRequest]
    /\ ascan = [r \in AProcs |-> NoScan]
    /\ served = <<>>
    /\ UiInit

\* The functions are pure: one caller at a time shows all they do
AggCallers == {"r1"}

AggregationNext ==
    \E r \in AggCallers :
        \/ \E w \in AggWindows : CallGetSalesForPeriod(r, w[1], w[2])
        \/ \E w \in AggWindows : CallGetHourlyBreakdown(r, w[1])
        \/ \E w \in AggWindows : CallGetDailyBreakdown(r, w[1], w[2])
        \/ \E w \in AggWindows : CallGetMonthlyBreakdown(r, w[1], w[2])
        \/ \E w \in AggWindows : CallGrowth(r, w[1], w[2])

SpecAggregation == AggregationInit /\ [][AggregationNext]_vars

\* What the records of `bills` with startDate <= createdAt <= endDate add up
\* to, record by record from the first
RECURSIVE WindowTotals(_, _, _)
WindowTotals(bills, startDate, endDate) ==
    IF bills = <<>> THEN [count |-> 0, sales |-> 0, items |-> 0]
    ELSE LET bill == Head(bills)
             rest == WindowTotals(Tail(bills), startDate, endDate)
         IN  IF startDate <= bill.createdAt /\ bill.createdAt <= endDate
             THEN [count |-> rest.count + 1,
                   sales |-> rest.sales + bill.totalAmount,
                   items |-> rest.items + ItemsOf(bill.productList)]
             ELSE rest

\* Request r holds the result of a getSalesForPeriodAggregated call
Aggregated(r) == areq[r].period = "aggregate"

OnDay(r, day) ==
    {i \in Matching(billingHistory, areq[r].startDate, areq[r].endDate) :
        DayOf(billingHistory[i].createdAt) = day}

\* The records of the window of request r that fall in month k
InMonth(r, k) ==
    {i \in Matching(billingHistory, areq[r].startDate, areq[r].endDate) :
        MonthIndex(billingHistory[i].createdAt) = k}

\* C12 as stated: an hourly series has the 24 hours of the day in order; a
\* daily series has one bucket for every calendar day from the day of start
\* to the day of end, in order; a monthly series one for every month from
\* the month of start to the month of end, in order; a bucket without a
\* matching record has sales 0 and transactions 0.
C12_BucketCount ==
    \A r \in AProcs :
        LET chart == ascan[r].chartData
        IN  /\ areq[r].period = "hourly" =>
                   /\ Len(chart) = 24
                   /\ \A n \in 1..24 : chart[n].hour = n - 1
            /\ areq[r].period = "daily" =>
                   /\ Len(chart) = DayOf(areq[r].endDate) - DayOf(areq[r].startDate) + 1
                   /\ \A n \in 1..Len(chart) :
                          /\ chart[n].date = DayOf(areq[r].startDate) + (n - 1)
                          /\ OnDay(r, chart[n].date) = {}
                                 => (chart[n].sales = 0 /\ chart[n].transactions = 0)
            /\ areq[r].period = "monthly" =>
                   /\ Len(chart) = MonthIndex(areq[r].endDate)
                                       - MonthIndex(areq[r].startDate) + 1
                   /\ \A n \in 1..Len(chart) :
                          LET k == chart[n].year * 12 + chart[n].month
                          IN  /\ k = MonthIndex(areq[r].startDate) + (n - 1)
                              /\ InMonth(r, k) = {}
                                     => (chart[n].sales = 0 /\ chart[n].transactions = 0)

-----------------------------------------------------------------------------
(* The period resolver of getSalesAnalytics.  The windows of a month or a  *)
(* year do not fit the machine integers in milliseconds, so a Date is kept *)
(* here as its day number and the millisecond of that day.                 *)

Instant(day, ms) == [day |-> day, ms |-> ms]

\* No date given (customStart or customEnd missing from the request)
NoDate == [day |-> "none"]

\* setHours(0, 0, 0, 0)
StartOfDay(i) == Instant(i.day, 0)

\* setHours(23, 59, 59, 999) left out
EndOfDayNoop(i) == i

\* setHours(23, 59, 59, 999)
EndOfDay(i) == Instant(i.day, DAY - 1)

\* setDate(getDate() + n) without effect
AddDaysNone(i, n) == i

\* setDate(getDate() + n)
AddDays(i, n) == Instant(i.day + n, i.ms)

\* new Date(y, m, d), at 00:00:00.000
DateOf(y, m, d) == Instant(MakeDate(y, m, d), 0)

\* Math.floor in place of Math.ceil
DaysDiffFloor(startDate, endDate) ==
    (endDate.day - startDate.day) - (IF endDate.ms < startDate.ms THEN 1 ELSE 0)

\* Math.ceil((endDate - startDate) / (1000 * 60 * 60 * 24))
DaysDiff(startDate, endDate) ==
    (endDate.day - startDate.day) + (IF endDate.ms > startDate.ms THEN 1 ELSE 0)

Resolved(period, startDate, endDate, comparisonStart, comparisonEnd, chartType) ==
    [error |-> "", period |-> period, startDate |-> startDate, endDate |-> endDate,
     comparisonStart |-> comparisonStart, comparisonEnd |-> comparisonEnd,
     chartType |-> chartType]

\* The branch of explicit dates
ResolveCustomDates(customStart, customEnd) ==
    LET daysDiff == DaysDiff(customStart, customEnd)
    IN  Resolved("custom", customStart, customEnd,
                 AddDays(customStart, -daysDiff), AddDays(customEnd, -daysDiff),
                 IF daysDiff <= 1 THEN "hourly"
                 ELSE IF daysDiff <= 31 THEN "daily" ELSE "monthly")

LegacyPeriods == {"today", "yesterday", "thisWeek", "thisMonth", "thisYear"}

\* The cases of the switch, at the moment `at`
ResolveLegacy(period, at) ==
    LET y == getFullYear(at.day)
        m == getMonth(at.day)
    IN  CASE period = "today" ->
                 Resolved(period, StartOfDay(at), EndOfDay(at),
                          AddDays(StartOfDay(at), -1), AddDays(EndOfDay(at), -1), "hourly")
          [] period = "yesterday" ->
                 LET startDate == StartOfDay(AddDays(at, -1))
                 IN  Resolved(period, startDate, EndOfDay(startDate),
                              AddDays(startDate, -1), AddDays(EndOfDay(startDate), -1),
                              "hourly")
          [] period = "thisWeek" ->
                 LET startDate == StartOfDay(AddDays(at, -getDay(at.day)))
                 IN  Resolved(period, startDate, EndOfDay(at),
                              AddDays(startDate, -7), AddDays(EndOfDay(at), -7), "daily")
          [] period = "thisMonth" ->
                 Resolved(period, DateOf(y, m, 1), EndOfDay(at),
                          DateOf(y, m - 1, 1), EndOfDay(DateOf(y, m, 0)), "daily")
          [] period = "thisYear" ->
                 Resolved(period, DateOf(y, 0, 1), EndOfDay(at),
                          DateOf(y - 1, 0, 1),
                          EndOfDay(DateOf(y - 1, m, getDate(at.day))), "monthly")

\* The default case resolved like thisMonth instead of thrown
ResolvePeriodDefaultMonth(period, at, customStart, customEnd) ==
    IF period = "custom" /\ customStart # NoDate /\ customEnd # NoDate
    THEN ResolveCustomDates(customStart, customEnd)
    ELSE IF period \in LegacyPeriods THEN ResolveLegacy(period, at)
    ELSE ResolveLegacy("thisMonth", at)

\* getSalesAnalytics up to the cache check: the window of the request, or
\* throw new Error('INVALID_PERIOD')
ResolvePeriod(period, at, customStart, customEnd) ==
    IF period = "custom" /\ customStart # NoDate /\ customEnd # NoDate
    THEN ResolveCustomDates(customStart, customEnd)
    ELSE IF period \in LegacyPeriods THEN ResolveLegacy(period, at)
    ELSE [error |-> "INVALID_PERIOD", period |-> period]

\* The moments requests are made at: 2024-03-15 10:00, 2024-03-01 00:00,
\* 2024-03-03 12:00 (a Sunday), 2024-02-29 23:59:59.999, 2024-01-01
\* 00:00:00.001 and 2025-03-15 10:00
PeriodNows ==
    {Instant(14, 10 * HOUR), Instant(0, 0), Instant(2, 12 * HOUR),
     Instant(-1, DAY - 1), Instant(-60, 1), Instant(379, 10 * HOUR)}

\* customStart and customEnd of the requests: spans around 1 day and around
\* 31 days, a span of a day and a half, and an end before the start
CustomStarts == {Instant(0, 0), Instant(0, 1)}
CustomEnds ==
    {Instant(0, DAY - 1), Instant(1, 0), Instant(1, 1), Instant(1, 12 * HOUR),
     Instant(6, DAY - 1), Instant(31, 0), Instant(31, 1), Instant(32, 0),
     Instant(-1, 0)}

\* (period, startDate, endDate) of the request bodies; lastMonth is a name
\* the switch does not have, "" is a body without a period
PeriodRequests ==
    [period : LegacyPeriods \cup {"custom", "lastMonth", ""},
     customStart : {NoDate}, customEnd : {NoDate}]
    \cup [period : {"custom"}, customStart : CustomStarts \cup {NoDate},
          customEnd : CustomEnds \cup {NoDate}]

\* The controller's answer to a thrown error
AnalyticsResponse(error) ==
    IF error = "" THEN [status |-> 200, message |-> ""]
    ELSE IF error = "INVALID_PERIOD"
    THEN [status |-> 400, message |-> "Invalid period specified"]
    ELSE [status |-> 500, message |-> "Failed to fetch analytics"]

\* The controller's period || 'today' and period || 'thisMonth'
PeriodOrDefault(period, default) == IF period = "" THEN default ELSE period

\* getSalesAnalytics of request r, made at the moment `at`, up to the cache
\* check: the window is resolved, or INVALID_PERIOD is thrown and the
\* controller answers it.
GetSalesAnalyticsResolve(r, request, at) ==
    /\ apc[r] = "idle"
    /\ LET window == ResolvePeriod(PeriodOrDefault(request.period, "today"), at,
                                   request.customStart, request.customEnd)
       IN  /\ areq' = [areq EXCEPT ![r] =
                  [period |-> request.period, customStart |-> request.customStart,
                   customEnd |-> request.customEnd, at |-> at, window |-> window,
                   response |-> AnalyticsResponse(window.error)]]
           /\ apc' = [apc EXCEPT ![r] = IF window.error = "" THEN "cache" ELSE "idle"]
    /\ UNCHANGED <<analyticsCache, ascan, served, now, storeVars, uiVars>>

\* getSalesAnalytics from the cache check to its first await: nothing is
\* cached, getFromCache returns null and the aggregation of the current
\* period is sent to the database.
GetSalesAnalyticsStart(r) ==
    /\ apc[r] = "cache"
    /\ \A key \in DOMAIN analyticsCache : ~CacheHit(key)
    /\ apc' = [apc EXCEPT ![r] = "current"]
    /\ ascan' = [ascan EXCEPT ![r] = NoScan]
    /\ UNCHANGED <<analyticsCache, areq, served, now, storeVars, uiVars>>

\* The resolver is pure: one caller shows all it does
PeriodCallers == {"r1"}

PeriodNext ==
    \E r \in PeriodCallers :
        \/ \E request \in PeriodRequests, at \in PeriodNows :
               GetSalesAnalyticsResolve(r, request, at)
        \/ GetSalesAnalyticsStart(r)

SpecPeriod == AnalyticsInit /\ [][PeriodNext]_vars

\* Request r has had its period resolved
HasWindow(r) == areq[r].period # "none" /\ areq[r].window.error = ""

\* The length of the window [s, e] as whole days and milliseconds
WindowLength(s, e) ==
    IF e.ms >= s.ms THEN <<e.day - s.day, e.ms - s.ms>>
    ELSE <<e.day - s.day - 1, e.ms - s.ms + DAY>>

\* C13 as stated: for every period resolved, the comparison window is as
\* long as the current window.
C13_Original ==
    \A r \in AProcs :
        HasWindow(r) =>
            LET w == areq[r].window
            IN  WindowLength(w.comparisonStart, w.comparisonEnd)
                    = WindowLength(w.startDate, w.endDate)

\* C13 amended: for today, yesterday, thisWeek and custom the comparison
\* window is as long as the current window; for thisMonth it is the whole
\* of the previous month, from its first millisecond to the millisecond
\* before the current window starts; for thisYear it starts a calendar year
\* before the current window and its length differs from the current one's
\* by at most a day.
C13_ComparisonLength ==
    \A r \in AProcs :
        HasWindow(r) =>
            LET w == areq[r].window
                current == WindowLength(w.startDate, w.endDate)
                comparison == WindowLength(w.comparisonStart, w.comparisonEnd)
            IN  /\ w.period \in {"today", "yesterday", "thisWeek", "custom"}
                       => comparison = current
                /\ w.period = "thisMonth" =>
                       /\ w.comparisonEnd = Instant(w.startDate.day - 1, DAY - 1)
                       /\ w.comparisonStart.ms = 0
                       /\ getDate(w.comparisonStart.day) = 1
                       /\ getMonth(w.comparisonStart.day) = getMonth(w.comparisonEnd.day)
                       /\ getFullYear(w.comparisonStart.day)
                              = getFullYear(w.comparisonEnd.day)
                /\ w.period = "thisYear" =>
                       /\ w.comparisonStart.ms = 0
                       /\ w.comparisonStart.day = YearStart(getFullYear(w.startDate.day) - 1)
                       /\ comparison[2] = current[2]
                       /\ comparison[1] - current[1] \in {-1, 0, 1}

\* thisMonth has been resolved in the middle of March 2024: 15 days are
\* compared with the 29 of February
C13_Witness ==
    \E r \in AProcs :
        /\ HasWindow(r)
        /\ areq[r].window.period = "thisMonth"
        /\ WindowLength(areq[r].window.startDate, areq[r].window.endDate)
               = <<14, DAY - 1>>
        /\ WindowLength(areq[r].window.comparisonStart, areq[r].window.comparisonEnd)
               = <<28, DAY - 1>>

\* C14: the growth percentage is a number; it is 0 whenever the comparison
\* period has no sales, and otherwise the rounded percentage by which the
\* current total differs from the comparison total.
C14_GrowthFinite ==
    \A r \in AProcs :
        areq[r].period = "growth" =>
            LET current == ascan[r].current.totalSales
                comparison == ascan[r].comparison.totalSales
                percentage == ascan[r].growth.percentage
            IN  /\ percentage.finite
                /\ comparison = 0 => percentage.value = 0
                /\ comparison > 0 =>
                       /\ (2 * percentage.value - 1) * comparison
                              <= 200 * (current - comparison)
                       /\ 200 * (current - comparison)
                              < (2 * percentage.value + 1) * comparison

\* A growth has been computed for a window with sales whose comparison
\* window has none
C14_Witness ==
    \E r \in AProcs :
        /\ areq[r].period = "growth"
        /\ ascan[r].current.totalSales > 0
        /\ ascan[r].comparison.totalSales = 0
        /\ ascan[r].growth.percentage = Finite(0)

\* The instant i is the first millisecond of the month the day `day` is in
FirstOfMonthOf(i, day) ==
    /\ i.ms = 0
    /\ getDate(i.day) = 1
    /\ getMonth(i.day) = getMonth(day)
    /\ getFullYear(i.day) = getFullYear(day)

\* Request r has had thisMonth resolved
ThisMonth(r) == HasWindow(r) /\ areq[r].window.period = "thisMonth"

\* C15 as stated: thisMonth at the moment `at` is the window from the 1st
\* of at's month at 00:00 to `at` itself, compared with the previous month
\* from its 1st at 00:00 to its last day at 23:59:59.999, in daily buckets.
C15_Original ==
    \A r \in AProcs :
        ThisMonth(r) =>
            LET w == areq[r].window
            IN  /\ FirstOfMonthOf(w.startDate, areq[r].at.day)
                /\ w.endDate = areq[r].at
                /\ FirstOfMonthOf(w.comparisonStart, w.startDate.day - 1)
                /\ w.comparisonEnd = Instant(w.startDate.day - 1, DAY - 1)
                /\ w.chartType = "daily"

\* C15 amended: as C15, with the window ending at 23:59:59.999 of the day
\* of `at`.
C15_ThisMonth ==
    \A r \in AProcs :
        ThisMonth(r) =>
            LET w == areq[r].window
            IN  /\ FirstOfMonthOf(w.startDate, areq[r].at.day)
                /\ w.endDate = Instant(areq[r].at.day, DAY - 1)
                /\ FirstOfMonthOf(w.comparisonStart, w.startDate.day - 1)
                /\ w.comparisonEnd = Instant(w.startDate.day - 1, DAY - 1)
                /\ w.chartType = "daily"

\* thisMonth resolved on 2024-03-15 at 10:00: March 1 to the end of March
\* 15, compared with February 1 to the end of February 29
C15_Witness ==
    \E r \in AProcs :
        /\ ThisMonth(r)
        /\ areq[r].at = Instant(14, 10 * HOUR)
        /\ areq[r].window.startDate = Instant(0, 0)
        /\ areq[r].window.endDate = Instant(14, DAY - 1)
        /\ areq[r].window.comparisonStart = Instant(-29, 0)
        /\ areq[r].window.comparisonEnd = Instant(-1, DAY - 1)

\* Request r has had a custom period resolved
Custom(r) == HasWindow(r) /\ areq[r].window.period = "custom"

\* endDate - startDate is at most n days
SpanAtMost(startDate, endDate, n) ==
    \/ endDate.day - startDate.day < n
    \/ endDate.day - startDate.day = n /\ endDate.ms <= startDate.ms

\* C16: the granularity of a custom period is hourly when end - start is at
\* most 1 day, daily when it is more than 1 day and at most 31 days, and
\* monthly otherwise.
C16_Granularity ==
    \A r \in AProcs :
        Custom(r) =>
            LET w == areq[r].window
            IN  w.chartType =
                    IF SpanAtMost(w.startDate, w.endDate, 1) THEN "hourly"
                    ELSE IF SpanAtMost(w.startDate, w.endDate, 31) THEN "daily"
                    ELSE "monthly"

\* A custom period one millisecond longer than a day has been resolved to
\* daily buckets
C16_Witness ==
    \E r \in AProcs :
        /\ Custom(r)
        /\ areq[r].window.startDate = Instant(0, 0)
        /\ areq[r].window.endDate = Instant(1, 1)
        /\ areq[r].window.chartType = "daily"

\* C17 as stated: the comparison window of a custom period is
\* [start - span, end - span]: as long as the current window, and ending
\* where the current window starts.
C17_Original ==
    \A r \in AProcs :
        Custom(r) =>
            LET w == areq[r].window
            IN  /\ w.comparisonEnd = w.startDate
                /\ WindowLength(w.comparisonStart, w.comparisonEnd)
                       = WindowLength(w.startDate, w.endDate)

\* C17 amended: the comparison window of a custom period is the current
\* window moved back by D days, D being the least whole number of days that
\* end - start does not exceed.
C17_ComparisonWindow ==
    \A r \in AProcs :
        Custom(r) =>
            LET w == areq[r].window
                D == w.startDate.day - w.comparisonStart.day
            IN  /\ w.comparisonStart = Instant(w.startDate.day - D, w.startDate.ms)
                /\ w.comparisonEnd = Instant(w.endDate.day - D, w.endDate.ms)
                /\ SpanAtMost(w.startDate, w.endDate, D)
                /\ ~SpanAtMost(w.startDate, w.endDate, D - 1)

\* A custom period of a day and a half has been resolved: its comparison
\* window lies two days back and ends half a day before the period starts
C17_Witness ==
    \E r \in AProcs :
        /\ Custom(r)
        /\ areq[r].window.startDate = Instant(0, 0)
        /\ areq[r].window.endDate = Instant(1, 12 * HOUR)
        /\ areq[r].window.comparisonStart = Instant(-2, 0)
        /\ areq[r].window.comparisonEnd = Instant(-1, 12 * HOUR)

\* The request body q names a period getSalesAnalytics does not have, or
\* custom without both dates
InvalidPeriod(q) ==
    /\ q.period \notin LegacyPeriods \cup {"none", ""}
    /\ ~(q.period = "custom" /\ q.customStart # NoDate /\ q.customEnd # NoDate)

\* C18: a getSalesAnalytics request whose period is not a recognized name, or
\* is custom without both dates, is answered with INVALID_PERIOD (status 400)
\* in the step that receives it: no aggregation is started for it and the
\* analytics cache is left as it was.
C18_InvalidPeriod ==
    [][\A r \in AProcs :
          (areq'[r] # areq[r] /\ InvalidPeriod(areq'[r])) =>
              /\ areq'[r].window.error = "INVALID_PERIOD"
              /\ areq'[r].response = [status |-> 400, message |-> "Invalid period specified"]
              /\ apc'[r] = "idle"
              /\ ascan' = ascan
              /\ analyticsCache' = analyticsCache
              /\ served' = served]_vars

\* A request for lastMonth and a custom request with only an end date have
\* been answered 400, while requests with a resolved window go on to the
\* aggregation
C18_Witness ==
    \E r \in AProcs :
        /\ areq[r].period \in {"lastMonth", "custom"}
        /\ InvalidPeriod(areq[r])
        /\ areq[r].response.status = 400
        /\ apc[r] = "idle"

-----------------------------------------------------------------------------
(* getTopSellingMedicines: the period switch and the ranking pipeline.
   Prices and unrounded revenues are in thousandths of the currency unit,
   projected revenues in hundredths. *)

\* The _id of the group of lines without a medID
NoMedID == "null"

\* One line of a bill's productList
TopLine(medID, name, pricePerTab, quantity) ==
    [medData |-> [medID |-> medID, name |-> name, pricePerTab |-> pricePerTab],
     quantity |-> quantity]

\* Instant i is at or after instant j
AtOrAfter(i, j) == i.day > j.day \/ (i.day = j.day /\ i.ms >= j.ms)

TopPeriods == {"today", "thisWeek", "thisMonth", "thisYear"}

\* The switch of getTopSellingMedicines at the moment `at`: startDate
TopSellingStart(period, at) ==
    CASE period = "today" -> StartOfDay(at)
      [] period = "thisWeek" -> StartOfDay(AddDays(at, -getDay(at.day)))
      [] period = "thisYear" -> DateOf(getFullYear(at.day), 0, 1)
      [] OTHER -> DateOf(getFullYear(at.day), getMonth(at.day), 1)

\* The two $unwind stages around the $match on createdAt: the lines of the
\* records created at or after startDate, in the order of the scan
RECURSIVE Unwound(_, _)
Unwound(bills, startDate) ==
    IF bills = <<>> THEN <<>>
    ELSE (IF AtOrAfter(Head(bills).createdAt, startDate)
          THEN Head(bills).productList ELSE <<>>)
         \o Unwound(Tail(bills), startDate)

\* $sum of quantity over the lines of medicine id
RECURSIVE GroupQuantity(_, _)
GroupQuantity(lines, id) ==
    IF lines = <<>> THEN 0
    ELSE (IF Head(lines).medData.medID = id THEN Head(lines).quantity ELSE 0)
         + GroupQuantity(Tail(lines), id)

\* $sum of quantity * pricePerTab over the lines of medicine id
RECURSIVE GroupRevenue(_, _)
GroupRevenue(lines, id) ==
    IF lines = <<>> THEN 0
    ELSE (IF Head(lines).medData.medID = id
          THEN Head(lines).quantity * Head(lines).medData.pricePerTab ELSE 0)
         + GroupRevenue(Tail(lines), id)

\* The $group stage: one document per medID among the lines
GroupByMedID(lines) ==
    {[_id |-> id,
      name |-> lines[CHOOSE k \in 1..Len(lines) :
                         /\ lines[k].medData.medID = id
                         /\ \A j \in 1..(k - 1) : lines[j].medData.medID # id].medData.name,
      quantity |-> GroupQuantity(lines, id),
      revenue |-> GroupRevenue(lines, id)] :
        id \in {lines[k].medData.medID : k \in 1..Len(lines)}}

\* The $match stage on _id: the group of the lines without a medID is dropped
ExcludeNull(groups) == {g \in groups : g._id # NoMedID}

\* The $sort stage: the orders of the groups with revenue descending; groups
\* of equal revenue come in any order
SortByRevenue(groups) ==
    {ranked \in [1..Cardinality(groups) -> groups] :
        /\ \A i, j \in DOMAIN ranked : i # j => ranked[i] # ranked[j]
        /\ \A i \in 1..(Len(ranked) - 1) : ranked[i].revenue >= ranked[i + 1].revenue}

\* The pipeline without a $limit stage
LimitNone(ranked, limit) == ranked

\* The $limit stage
Limit(ranked, limit) ==
    SubSeq(ranked, 1, IF limit < Len(ranked) THEN limit ELSE Len(ranked))

\* $round to `unit`: the nearest multiple, a half going to the even one
RoundHalfEven(n, unit) ==
    LET q == n \div unit
        rest == n % unit
    IN  IF 2 * rest > unit \/ (2 * rest = unit /\ q % 2 = 1) THEN q + 1 ELSE q

\* The $project stage
Project(group) ==
    [medID |-> group._id, name |-> group.name, quantity |-> group.quantity,
     revenue |-> RoundHalfEven(group.revenue, 10)]

\* The results the pipeline of getTopSellingMedicines can return
getTopSellingMedicines(bills, startDate, limit) ==
    {[k \in DOMAIN Limit(ranked, limit) |-> Project(Limit(ranked, limit)[k])] :
        ranked \in SortByRevenue(ExcludeNull(GroupByMedID(Unwound(bills, startDate))))}

\* The controller's parseInt(limit) || 10
LimitOrDefault(limit) == IF limit = 0 THEN 10 ELSE limit

MaxTopLines == 2     \* lines in one bill of the ranked histories

\* The lines sold: A at 3.333 a piece, B at 6.666, and a line without medID
TopLines ==
    {TopLine("A", "Amoxicillin", 3333, 1), TopLine("A", "Amoxicillin", 3333, 2),
     TopLine("B", "Brufen", 6666, 1), TopLine(NoMedID, "Loose", 5000, 3)}

\* createdAt of the records: 2024-02-29 23:59:59.999, 2024-03-01 00:00 and
\* 2024-03-15 09:00
TopTimes == {Instant(-1, DAY - 1), Instant(0, 0), Instant(14, 9 * HOUR)}

TopBills ==
    [productList : SeqsUpTo(TopLines, MaxTopLines) \ {<<>>}, createdAt : TopTimes]

\* The histories ranked, records in the order of their dates
TopHistories ==
    {h \in SeqsUpTo(TopBills, MaxBills) :
        \A i \in 1..Len(h) - 1 : AtOrAfter(h[i + 1].createdAt, h[i].createdAt)}

\* (period, limit) of the request bodies: "" and 0 stand for a body without
\* the field; lastMonth is a name the switch does not have
TopRequests == [period : TopPeriods \cup {"lastMonth", ""}, limit : {0, 1, 2}]

\* The moment the requests are made at: 2024-03-15 10:00
TopNows == {Instant(14, 10 * HOUR)}

\* getTopSelling of request r up to the await of the aggregation: the
\* defaults of the controller and the switch of the service
GetTopSelling(r, request, at) ==
    /\ apc[r] = "idle"
    /\ areq' = [areq EXCEPT ![r] =
           [period |-> request.period, limit |-> request.limit, at |-> at,
            startDate |-> TopSellingStart(PeriodOrDefault(request.period, "thisMonth"), at),
            response |-> [status |-> 0, message |-> ""]]]
    /\ apc' = [apc EXCEPT ![r] = "ranking"]
    /\ ascan' = [ascan EXCEPT ![r] = NoScan]
    /\ UNCHANGED <<analyticsCache, served, now, storeVars, uiVars>>

\* The database runs the pipeline and the controller answers with its result
ScanTopSelling(r) ==
    /\ apc[r] = "ranking"
    /\ \E topSelling \in getTopSellingMedicines(billingHistory, areq[r].startDate,
                                               LimitOrDefault(areq[r].limit)) :
           ascan' = [ascan EXCEPT ![r] = [topSelling |-> topSelling]]
    /\ areq' = [areq EXCEPT ![r].response = [status |-> 200, message |-> ""]]
    /\ apc' = [apc EXCEPT ![r] = "idle"]
    /\ UNCHANGED <<analyticsCache, served, now, storeVars, uiVars>>

\* A store whose billing history is one of TopHistories, nothing in flight
TopSellingInit ==
    /\ billingHistory \in TopHistories
    /\ commitLog = [i \in 1..Len(billingHistory) |-> billingHistory[i].createdAt]
    /\ stock = <<>>
    /\ version = Len(billingHistory)
    /\ pc = [p \in Procs |-> "idle"]
    /\ doc = [p \in Procs |-> NoDoc]
    /\ args = [p \in Procs |-> NoArgs]
    /\ conflict = [p \in Procs |-> FALSE]
    /\ result = [p \in Procs |-> NoResult]
    /\ calls = 0
    /\ now = DAY
    /\ analyticsCache = [k \in CacheKeys |-> NoEntry]
    /\ apc = [r \in AProcs |-> "idle"]
    /\ areq = [r \in AProcs |-> NoRequest]
    /\ ascan = [r \in AProcs |-> NoScan]
    /\ served = <<>>
    /\ UiInit

\* The ranking reads the history and writes nothing: one caller shows all
\* it does
TopCallers == {"r1"}

TopSellingNext ==
    \E r \in TopCallers :
        \/ \E request \in TopRequests, at \in TopNows : GetTopSelling(r, request, at)
        \/ ScanTopSelling(r)

SpecTopSelling == TopSellingInit /\ [][TopSellingNext]_vars

\* C19: a getTopSelling request whose period is not one of the names of the
\* switch is rejected with INVALID_PERIOD (status 400): no aggregation is
\* started for it and no ranking is returned.
C19_InvalidPeriodRejected ==
    \A r \in AProcs :
        (areq[r].period \notin TopPeriods \cup {"none", ""}) =>
            /\ apc[r] = "idle"
            /\ areq[r].response.status = 400
            /\ ascan[r] = NoScan

\* Request r has been answered with a ranking
Ranked(r) == apc[r] = "idle" /\ areq[r].period # "none"

\* The lines (record i, line k) of the history sold at or after startDate
SoldLines(startDate) ==
    {ik \in (1..Len(billingHistory)) \X (1..MaxTopLines) :
        /\ ik[2] <= Len(billingHistory[ik[1]].productList)
        /\ AtOrAfter(billingHistory[ik[1]].createdAt, startDate)}

LineAt(ik) == billingHistory[ik[1]].productList[ik[2]]

\* The medicine IDs sold at or after startDate
SoldIDs(startDate) ==
    {LineAt(ik).medData.medID : ik \in SoldLines(startDate)} \ {NoMedID}

\* quantity times unit price, added up over the lines in S
RECURSIVE SumRevenue(_)
SumRevenue(S) ==
    IF S = {} THEN 0
    ELSE LET ik == CHOOSE x \in S : TRUE
         IN  LineAt(ik).quantity * LineAt(ik).medData.pricePerTab + SumRevenue(S \ {ik})

\* The revenue of medicine id at or after startDate, in thousandths
RevenueOf(id, startDate) ==
    SumRevenue({ik \in SoldLines(startDate) : LineAt(ik).medData.medID = id})

\* What C20 says of a ranking apart from the value of revenue: at most limit
\* entries, as many as there are medicines sold when these are fewer, each of
\* another medicine sold in the window and none without a medicine ID, in
\* non-increasing order of revenue, no omitted medicine having a higher
\* revenue than a returned one.
RankingOf(r) ==
    LET startDate == areq[r].startDate
        limit == LimitOrDefault(areq[r].limit)
        top == ascan[r].topSelling
        returned == {top[k].medID : k \in DOMAIN top}
    IN  /\ Len(top) <= limit
        /\ Len(top) = limit \/ Len(top) = Cardinality(SoldIDs(startDate))
        /\ returned \subseteq SoldIDs(startDate)
        /\ Cardinality(returned) = Len(top)
        /\ NoMedID \notin returned
        /\ \A k \in 1..(Len(top) - 1) : top[k].revenue >= top[k + 1].revenue
        /\ \A id \in SoldIDs(startDate) \ returned : \A k \in DOMAIN top :
               RevenueOf(id, startDate) <= RevenueOf(top[k].medID, startDate)

\* C20 as stated: a ranking is as above and the revenue of each entry equals
\* the sum of quantity times unit price over the lines of its medicine in the
\* window.
C20_Original ==
    \A r \in AProcs :
        Ranked(r) =>
            /\ RankingOf(r)
            /\ \A k \in DOMAIN ascan[r].topSelling :
                   LET e == ascan[r].topSelling[k]
                   IN  e.revenue * 10 = RevenueOf(e.medID, areq[r].startDate)

\* C20 amended: a ranking is as above and the revenue of each entry is the
\* sum of quantity times unit price over the lines of its medicine in the
\* window, rounded to 2 decimal places.
C20_TopSelling ==
    \A r \in AProcs :
        Ranked(r) =>
            /\ RankingOf(r)
            /\ \A k \in DOMAIN ascan[r].topSelling :
                   LET e == ascan[r].topSelling[k]
                       sum == RevenueOf(e.medID, areq[r].startDate)
                   IN  /\ e.revenue * 10 - 5 <= sum
                       /\ sum <= e.revenue * 10 + 5

\* A ranking of limit 1 has been returned for a window in which A, B and a
\* line without medicine ID were sold: it holds the one medicine of the
\* higher revenue
C20_Witness ==
    \E r \in AProcs :
        /\ Ranked(r)
        /\ areq[r].limit = 1
        /\ SoldIDs(areq[r].startDate) = {"A", "B"}
        /\ \E ik \in SoldLines(areq[r].startDate) : LineAt(ik).medData.medID = NoMedID
        /\ Len(ascan[r].topSelling) = 1
        /\ ascan[r].topSelling[1].medID = "B"
        /\ RevenueOf("A", areq[r].startDate) < RevenueOf("B", areq[r].startDate)

\* The place in the scan at which medicine id is first met among the lines
\* sold at or after startDate: (record, line), records first
FirstMet(id, startDate) ==
    CHOOSE ik \in SoldLines(startDate) :
        /\ LineAt(ik).medData.medID = id
        /\ \A x \in SoldLines(startDate) :
               LineAt(x).medData.medID = id =>
                   ik[1] < x[1] \/ (ik[1] = x[1] /\ ik[2] <= x[2])

\* Medicine a is met before medicine b in the scan
MetBefore(a, b, startDate) ==
    LET x == FirstMet(a, startDate)
        y == FirstMet(b, startDate)
    IN  x[1] < y[1] \/ (x[1] = y[1] /\ x[2] < y[2])

\* C21: medicines of equal revenue are ranked in the order in which the scan
\* of the billing history first meets them, both among the entries returned
\* and between a returned entry and one cut off by the limit.
C21_StableTies ==
    \A r \in AProcs :
        Ranked(r) =>
            LET startDate == areq[r].startDate
                top == ascan[r].topSelling
                returned == {top[k].medID : k \in DOMAIN top}
            IN  /\ \A i, j \in DOMAIN top :
                       (i < j /\ RevenueOf(top[i].medID, startDate)
                                    = RevenueOf(top[j].medID, startDate))
                           => MetBefore(top[i].medID, top[j].medID, startDate)
                /\ \A id \in SoldIDs(startDate) \ returned : \A k \in DOMAIN top :
                       RevenueOf(id, startDate) = RevenueOf(top[k].medID, startDate)
                           => MetBefore(top[k].medID, id, startDate)

-----------------------------------------------------------------------------
(* StockRefreshProvider: the counter the stock page reloads on *)

MaxRefreshCalls == 15    \* triggerRefresh calls in one behaviour

\* A render with setRefreshTrigger(refreshTrigger + 1), the value captured
\* by the callback: the calls queued since the last render count once
ApplyStale(prev, queued) == IF queued > 0 THEN prev + 1 ELSE prev

\* A render runs the queued updaters (prev) => prev + 1 one after another
RECURSIVE ApplyUpdaters(_, _)
ApplyUpdaters(prev, queued) ==
    IF queued = 0 THEN prev ELSE ApplyUpdaters(prev + 1, queued - 1)

\* triggerRefresh(): setRefreshTrigger((prev) => prev + 1) queues an updater
TriggerRefresh ==
    /\ refreshCalls < MaxRefreshCalls
    /\ updateQueue' = updateQueue + 1
    /\ refreshCalls' = refreshCalls + 1
    /\ UNCHANGED <<refreshTrigger, now, storeVars, analyticsVars>>

\* React renders the provider again: the queue is applied to the state
Render ==
    /\ refreshTrigger' = ApplyUpdaters(refreshTrigger, updateQueue)
    /\ updateQueue' = 0
    /\ UNCHANGED <<refreshCalls, now, storeVars, analyticsVars>>

RefreshInit == InitFrom({<<>>})

RefreshNext == TriggerRefresh \/ Render

SpecRefresh == RefreshInit /\ [][RefreshNext]_vars

\* C22: refreshTrigger is never negative; once the calls made so far have
\* been rendered it is its initial value 0 plus their number; it never
\* decreases, and it changes only by as many as triggerRefresh calls were
\* queued.
C22_RefreshCounter ==
    /\ [](/\ refreshTrigger >= 0
          /\ refreshTrigger + updateQueue = refreshCalls
          /\ (updateQueue = 0 => refreshTrigger = refreshCalls))
    /\ [][/\ refreshTrigger' >= refreshTrigger
          /\ refreshTrigger' - refreshTrigger \in {0, updateQueue}]_vars

\* Three calls have been rendered and two more are queued in one batch
C22_Witness ==
    /\ refreshTrigger = 3
    /\ updateQueue = 2
    /\ refreshCalls = 5

\* The step in which request q reads the store document
Reads(q) == doc'[q] # doc[q] /\ doc'[q] # NoDoc

\* C23: the persisted ledger and history change only in the step that ends a
\* call; the step that ends a createBilling call either leaves both as they
\* were or deducts all of the call's lines and appends its record at once;
\* and what a request reads is the ledger, history and version persisted at
\* one moment.  No reader therefore sees some of a call's lines deducted, or
\* a deduction without its record.
C23_NoPartialView ==
    [][/\ (stock' # stock \/ billingHistory' # billingHistory)
              => \E p \in Procs : pc[p] # "idle" /\ pc'[p] = "idle"
       /\ \A p \in Procs :
              BillingEnds(p) =>
                  \/ stock' = stock /\ billingHistory' = billingHistory
                  \/ /\ Len(billingHistory') = Len(billingHistory) + 1
                     /\ SubSeq(billingHistory', 1, Len(billingHistory)) = billingHistory
                     /\ billingHistory'[Len(billingHistory')].productList = args[p].products
                     /\ \A m \in Meds :
                            Held(stock', m) = Held(stock, m) - Requested(args[p].products, m)
       /\ \A q \in Procs :
              Reads(q) => /\ doc'[q].stock = stock
                          /\ doc'[q].billingHistory = billingHistory
                          /\ doc'[q].version = version]_vars

\* A call with lines for two medicines has been billed, and another request
\* has read the store since: it holds both deductions and the record
C23_Witness ==
    \E p, q \in Procs :
        /\ Billed(p)
        /\ result[p].error = ""
        /\ Len(args[p].products) = 2
        /\ args[p].products[1].medID # args[p].products[2].medID
        /\ args[p].products[1].quantity > 0
        /\ args[p].products[2].quantity > 0
        /\ pc[q] # "idle"
        /\ doc[q].stock = stock
        /\ Len(doc[q].billingHistory) = 1
        /\ doc[q].billingHistory[1].productList = args[p].products

-----------------------------------------------------------------------------
(* getSalesAnalytics for named periods, from the request to the cache and
   back, on Sunday 2024-03-03 *)

\* Dates as milliseconds
ToMs(i) == i.day * DAY + i.ms
FromMs(t) == Instant(t \div DAY, t % DAY)

\* The periods asked for
SundayPeriods == {"today", "yesterday", "thisWeek"}

\* The window of a named period at Date.now(), its dates as milliseconds
ResolveNamed(period) ==
    LET window == ResolvePeriod(period, FromMs(now), NoDate, NoDate)
    IN  [period |-> period,
         startDate |-> ToMs(window.startDate),
         endDate |-> ToMs(window.endDate),
         chartType |-> window.chartType,
         comparisonStart |-> ToMs(window.comparisonStart),
         comparisonEnd |-> ToMs(window.comparisonEnd),
         abandoned |-> FALSE]

\* getSalesAnalytics of a named period up to its return from the cache
GetSalesAnalyticsNamedCached(r, period) ==
    /\ apc[r] = "idle"
    /\ Len(served) + Cardinality({q \in AProcs : apc[q] # "idle"}) < MaxRequests
    /\ LET req == ResolveNamed(period)
           cacheKey == getCacheKey(req.startDate, req.endDate)
       IN  /\ CacheHit(cacheKey)
           /\ served' = Append(served,
                  Served(cacheKey, TRUE, analyticsCache[cacheKey].data))
           /\ areq' = [areq EXCEPT ![r] = req]
           /\ ascan' = [ascan EXCEPT ![r] = [returned |-> analyticsCache[cacheKey].data]]
    /\ UNCHANGED <<analyticsCache, apc, now, storeVars, uiVars>>

\* getSalesAnalytics of a named period up to its first await, on a miss
GetSalesAnalyticsNamedMiss(r, period) ==
    /\ apc[r] = "idle"
    /\ Len(served) + Cardinality({q \in AProcs : apc[q] # "idle"}) < MaxRequests
    /\ LET req == ResolveNamed(period)
           cacheKey == getCacheKey(req.startDate, req.endDate)
       IN  /\ ~CacheHit(cacheKey)
           /\ analyticsCache' = [analyticsCache EXCEPT ![cacheKey] = NoEntry]
           /\ areq' = [areq EXCEPT ![r] = req]
    /\ apc' = [apc EXCEPT ![r] = "current"]
    /\ ascan' = [ascan EXCEPT ![r] = NoScan]
    /\ UNCHANGED <<served, now, storeVars, uiVars>>

\* One of the three aggregations of request r is rejected by the database:
\* getSalesAnalytics throws at its await and the controller answers 500
ScanFails(r) ==
    /\ apc[r] \in {"current", "comparison", "chart"}
    /\ apc' = [apc EXCEPT ![r] = "idle"]
    /\ areq' = [areq EXCEPT ![r] =
           [period |-> "none", response |-> AnalyticsResponse("MongoServerError")]]
    /\ ascan' = [ascan EXCEPT ![r] = NoScan]
    /\ UNCHANGED <<analyticsCache, served, now, storeVars, uiVars>>

\* The client of request r closes the connection while the aggregations
\* run: the controller does not listen for it and the call goes on
Abandon(r) ==
    /\ apc[r] \in {"current", "comparison", "chart"}
    /\ ~areq[r].abandoned
    /\ areq' = [areq EXCEPT ![r].abandoned = TRUE]
    /\ UNCHANGED <<analyticsCache, apc, ascan, served, now, storeVars, uiVars>>

\* Sunday 2024-03-03 at noon; one bill of Saturday and one of this morning
SundayInit ==
    /\ billingHistory =
           <<[productList |-> <<[medID |-> "A", quantity |-> 1]>>,
              totalAmount |-> 1500, createdAt |-> DAY + 10 * HOUR],
             [productList |-> <<[medID |-> "A", quantity |-> 1]>>,
              totalAmount |-> 1500, createdAt |-> 2 * DAY + 9 * HOUR]>>
    /\ commitLog = <<DAY + 10 * HOUR, 2 * DAY + 9 * HOUR>>
    /\ stock = <<>>
    /\ version = 2
    /\ pc = [p \in Procs |-> "idle"]
    /\ doc = [p \in Procs |-> NoDoc]
    /\ args = [p \in Procs |-> NoArgs]
    /\ conflict = [p \in Procs |-> FALSE]
    /\ result = [p \in Procs |-> NoResult]
    /\ calls = 0
    /\ now = 2 * DAY + 12 * HOUR
    /\ analyticsCache = [k \in CacheKeys |-> NoEntry]
    /\ apc = [r \in AProcs |-> "idle"]
    /\ areq = [r \in AProcs |-> NoRequest]
    /\ ascan = [r \in AProcs |-> NoScan]
    /\ served = <<>>
    /\ UiInit

SundayNext ==
    \E r \in AProcs :
        \/ \E period \in SundayPeriods : GetSalesAnalyticsNamedCached(r, period)
        \/ \E period \in SundayPeriods : GetSalesAnalyticsNamedMiss(r, period)
        \/ ScanCurrent(r)
        \/ ScanComparison(r)
        \/ ScanChartAndCache(r)
        \/ ScanFails(r)
        \/ Abandon(r)

SpecSunday == SundayInit /\ [][SundayNext]_vars

\* Request r has been answered from the cache
AnsweredCached(r) == apc[r] = "idle" /\ areq[r].period # "none"

\* C24: a call answered from the cache is returned the period name, the
\* granularity and the comparison aggregate of its own period.
C24_CachedOwnPeriod ==
    \A r \in AProcs :
        AnsweredCached(r) =>
            LET data == ascan[r].returned
            IN  /\ data.period.name = areq[r].period
                /\ data.chartType = areq[r].chartType
                /\ data.comparison =
                       getSalesForPeriodAggregated(billingHistory,
                           areq[r].comparisonStart, areq[r].comparisonEnd)

\* The step in which request r caches and returns its result
Completes(r) == apc[r] = "chart" /\ apc'[r] = "idle" /\ Len(served') = Len(served) + 1

\* The step in which request r ends with an error
Fails(r) == apc[r] # "idle" /\ apc'[r] = "idle" /\ served' = served

\* The step writes the entry of `key`, and its writer is request r, which
\* has had its three aggregations answered: the entry holds the current and
\* the comparison aggregate it was answered, and the series of its chart
WrittenBy(key, r) ==
    /\ Completes(r)
    /\ key = getCacheKey(areq[r].startDate, areq[r].endDate)
    /\ analyticsCache'[key].data.period.name = areq[r].period
    /\ analyticsCache'[key].data.current = ascan[r].current
    /\ analyticsCache'[key].data.comparison = ascan[r].comparison
    /\ analyticsCache'[key].data.chartType = areq[r].chartType
    /\ Len(analyticsCache'[key].data.chartData) > 0
    /\ served'[Len(served')].data = analyticsCache'[key].data

\* A request that fails leaves the cache as it is and is answered 500
FailureLeavesCache ==
    \A r \in AProcs :
        Fails(r) => /\ analyticsCache' = analyticsCache
                    /\ areq'[r].response.status = 500

\* C25 as stated: an entry is written only by a request whose three
\* aggregations have all succeeded and which has not been abandoned; a
\* request that fails leaves the cache unchanged and is answered an error.
C25_Original ==
    [][/\ \A key \in CacheKeys :
              (analyticsCache'[key] # analyticsCache[key] /\ analyticsCache'[key] # NoEntry)
                  => \E r \in AProcs : WrittenBy(key, r) /\ ~areq[r].abandoned
       /\ FailureLeavesCache]_vars

\* C25 amended: an entry is written only by a request whose three
\* aggregations have all succeeded, and holds its complete result, whether
\* or not its client is still there; a request that fails leaves the cache
\* unchanged and is answered an error.
C25_CompleteEntries ==
    [][/\ \A key \in CacheKeys :
              (analyticsCache'[key] # analyticsCache[key] /\ analyticsCache'[key] # NoEntry)
                  => \E r \in AProcs : WrittenBy(key, r)
       /\ FailureLeavesCache]_vars

\* One request has cached its result; another has failed after its first
\* aggregation had been answered, and the cache holds the one entry
C25_Witness ==
    \E r \in AProcs :
        /\ apc[r] = "idle"
        /\ areq[r] = [period |-> "none", response |-> AnalyticsResponse("MongoServerError")]
        /\ Len(served) = 1
        /\ ~served[1].fromCache
        /\ analyticsCache[served[1].key].data = served[1].data
        /\ \A key \in CacheKeys \ {served[1].key} : analyticsCache[key] = NoEntry

\* C26: a createBilling call is not refused with INSUFFICIENT_STOCK when, for
\* every medicine its lines name, the ledger it read holds at least what the
\* lines ask for together; and a removeFromStock call is not refused when the
\* ledger it read holds at least the quantity to remove.
C26_SplitStockNotRefused ==
    [][\A p \in Procs :
          /\ (BillingEnds(p) /\ result'[p].error = "INSUFFICIENT_STOCK")
                 => \E m \in Named(args[p].products) :
                        Requested(args[p].products, m) > Held(doc[p].stock, m)
          /\ (pc[p] = "remove" /\ pc'[p] = "idle"
                  /\ result'[p].error = "INSUFFICIENT_STOCK")
                 => args[p].quantity > Held(doc[p].stock, args[p].medID)]_vars

\* The step in which p's call of `op` ends without an error
Succeeds(p, op) == pc[p] = op /\ pc'[p] = "idle" /\ result'[p].error = ""

\* C27: every successful call changes what the persisted ledger holds, as it
\* is when the call writes, by the call's own quantity: an add raises the
\* medicine by its quantity, a removal lowers it by its quantity, a billing
\* lowers each medicine by the sum of its lines, and no other medicine
\* changes.  The final quantities are then the initial ones plus all
\* successful adds minus all successful removals and billings.
C27_NoLostUpdate ==
    [][\A p \in Procs : \A m \in Meds :
          /\ Succeeds(p, "add") =>
                 Held(stock', m) = Held(stock, m)
                     + (IF m = args[p].medID THEN args[p].quantity ELSE 0)
          /\ Succeeds(p, "remove") =>
                 Held(stock', m) = Held(stock, m)
                     - (IF m = args[p].medID THEN args[p].quantity ELSE 0)
          /\ Succeeds(p, "billing") =>
                 Held(stock', m) = Held(stock, m) - Requested(args[p].products, m)]_vars

-----------------------------------------------------------------------------
(* What a BillingRecord holds of the medicine sold: stock entries with the *)
(* name and unit price of their medData, line items as the client sends    *)
(* them, and updateStockItem changing name and price afterwards.           *)

\* A stock entry with the sellable attributes of its medData
StockItem(medID, name, pricePerTab, quantity) ==
    [medID |-> medID, batchNumber |-> "", name |-> name,
     pricePerTab |-> pricePerTab, quantity |-> quantity]

MedNames == {"Paracetamol", "Ibuprofen"}
PricesPerTab == {500, 800}       \* pricePerTab, in cents

\* The shelf of the store: each medicine under its own name and price
PricedStock ==
    <<StockItem("A", "Paracetamol", 500, 2), StockItem("B", "Ibuprofen", 800, 1)>>

\* A line item of medSchemaBasedData with the medData the client filled in:
\* {medData: {medID, name, pricePerTab}, quantity}
PricedLines == [medID : Meds, name : MedNames, pricePerTab : PricesPerTab, quantity : {1}]

PricedProductLists == {<<l>> : l \in PricedLines}

\* stockItem.medData.pricePerTab = parseFloat(updates.pricePerTab);
\* stockItem.medData.name = updates.name
SetMedData(s, i, name, pricePerTab) ==
    [s EXCEPT ![i].name = name, ![i].pricePerTab = pricePerTab]

\* updateStockItem(email, medID, {name, pricePerTab}): findStoreByEmail
UpdateMedDataFind(p, medID, name, pricePerTab) ==
    Find(p, [op |-> "update", medID |-> medID, name |-> name,
             pricePerTab |-> pricePerTab])

\* The rest of updateStockItem: the two fields are set on the entry found by
\* medID and save() sends a $set of the element's paths with __v in its
\* filter.
UpdateMedDataSave(p) ==
    /\ pc[p] = "update"
    /\ LET medID == args[p].medID
           existingIndex == FindIndex(doc[p].stock, medID)
       IN  IF existingIndex < 1
           THEN Throw(p, "update", "MEDICINE_NOT_FOUND", medID)
           ELSE IF version # doc[p].version
           THEN Throw(p, "update", "VERSION_ERROR", medID)
           ELSE /\ stock' = SetMedData(stock, existingIndex, args[p].name,
                                       args[p].pricePerTab)
                /\ version' = version
                /\ conflict' = MarkConflict(p)
                /\ Finish(p, "update", "", medID)

SnapshotInit ==
    /\ stock = PricedStock
    /\ billingHistory = <<>>
    /\ version = 0
    /\ pc = [p \in Procs |-> "idle"]
    /\ doc = [p \in Procs |-> NoDoc]
    /\ args = [p \in Procs |-> NoArgs]
    /\ conflict = [p \in Procs |-> FALSE]
    /\ result = [p \in Procs |-> NoResult]
    /\ calls = 0
    /\ now = 0
    /\ commitLog = <<>>
    /\ analyticsCache = [k \in CacheKeys |-> NoEntry]
    /\ apc = [r \in AProcs |-> "idle"]
    /\ areq = [r \in AProcs |-> NoRequest]
    /\ ascan = [r \in AProcs |-> NoScan]
    /\ served = <<>>
    /\ UiInit

SnapshotNext ==
    \E p \in Procs :
        \/ \E products \in PricedProductLists, totalAmount \in TotalAmounts :
               CreateBillingFind(p, products, totalAmount)
        \/ CreateBillingSave(p)
        \/ \E medID \in Meds, name \in MedNames, pricePerTab \in PricesPerTab :
               UpdateMedDataFind(p, medID, name, pricePerTab)
        \/ UpdateMedDataSave(p)
        \/ \E medID \in Meds : RemoveFromStockFind(p, medID, 1)
        \/ RemoveFromStockSave(p)

SpecSnapshot == SnapshotInit /\ [][SnapshotNext]_vars

\* The entry of the ledger `s` that createBilling matches a line with
MatchedEntry(s, line) == s[FindIndex(s, line.medID)]

\* C28: every line of the record a createBilling call appends carries the
\* name and the unit price of the stock entry the line was matched with, as
\* the entry was when the call read the ledger, whatever the caller sent
\* for those fields; and no later step changes a record of the history.
C28_SnapshotOfStock ==
    [][/\ \A p \in Procs :
              Succeeds(p, "billing") =>
                  LET record == billingHistory'[Len(billingHistory')]
                  IN  \A k \in 1..Len(record.productList) :
                          LET line == record.productList[k]
                              entry == MatchedEntry(doc[p].stock, line)
                          IN  /\ line.name = entry.name
                              /\ line.pricePerTab = entry.pricePerTab
       /\ \A i \in 1..Len(billingHistory) :
              /\ Len(billingHistory') >= i
              /\ billingHistory'[i] = billingHistory[i]]_vars

-----------------------------------------------------------------------------
(* The analytics routes behind authenticateToken: two stores in the        *)
(* collection, a token signed for one of them, and the storeEmail of the   *)
(* request body.  In this section billingHistory holds the billing history *)
(* of every store of the collection, by storeEmail.                        *)

StoreEmails == {"a@mims.in", "b@mims.in"}

\* An address no store has signed up with
UnknownEmail == "c@mims.in"

\* The Authorization header: a token signed with JWT_SECRET or not, and the
\* storeEmail claim of its payload ("" = no such claim)
Tokens == [signed : BOOLEAN, storeEmail : StoreEmails \cup {""}]

\* The storeEmail field of the request body
BodyEmails == StoreEmails \cup {UnknownEmail}

AnalyticsRoutes == {"sales", "top-selling"}

MaxAnswers == 2      \* answers of the analytics routes in one behaviour

\* The routes keep nothing between two requests but the cache: one caller
\* after the other shows all they do
TenantCallers == {"r1"}

\* The bills of store a (Amoxicillin) and of store b (Brufen), made on
\* 2024-03-01 at 09:00 and 09:30
BillsOf(email) ==
    IF email = "a@mims.in"
    THEN {[productList |-> <<TopLine("A", "Amoxicillin", 3333, q)>>,
           totalAmount |-> 1000 * q, createdAt |-> 9 * HOUR] : q \in {1, 2}}
    ELSE {[productList |-> <<TopLine("B", "Brufen", 6666, 1)>>,
           totalAmount |-> 2500, createdAt |-> 9 * HOUR + (HOUR \div 2)]}

\* The stage {$match: {storeEmail: email}} of every pipeline: the history of
\* the store of that address, nothing when there is none
MatchStoreEmail(stores, email) ==
    IF email \in DOMAIN stores THEN stores[email] ELSE <<>>

\* createdAt as the calendar instant the period switch compares with
AsInstants(bills) ==
    [i \in DOMAIN bills |-> [bills[i] EXCEPT !.createdAt = FromMs(@)]]

\* getCacheKey: email:start:end
getCacheKeyOf(email, startDate, endDate) == <<email, startDate, endDate>>

TenantKeys ==
    {getCacheKeyOf(email, w[1], w[2]) : email \in BodyEmails, w \in CustomWindows}

\* The result getSalesAnalytics builds from its three aggregations over
\* the history `bills` for the resolved request `req`
AnalyticsResult(bills, req) ==
    LET currentPeriod == getSalesForPeriodAggregated(bills, req.startDate, req.endDate)
        comparisonPeriod ==
            getSalesForPeriodAggregated(bills, req.comparisonStart, req.comparisonEnd)
        chartData == IF req.chartType = "hourly"
                     THEN getHourlyBreakdownAggregated(bills, req.startDate)
                     ELSE IF req.chartType = "daily"
                     THEN getDailyBreakdownAggregated(bills, req.startDate, req.endDate)
                     ELSE getMonthlyBreakdownAggregated(bills, req.startDate, req.endDate)
        growth == growthPercentage(currentPeriod, comparisonPeriod).value
    IN  [period |-> [name |-> req.period, start |-> req.startDate, end |-> req.endDate],
         current |-> currentPeriod,
         comparison |-> comparisonPeriod,
         growth |-> [percentage |-> growth,
                     isPositive |-> growth >= 0],
         chartType |-> req.chartType,
         chartData |-> chartData]

\* Jwt.verify succeeds and the payload has a storeEmail claim
Verified(token) == token.signed /\ token.storeEmail # ""

\* authenticateToken answers 401: the token is not verified, or its payload
\* lacks the storeEmail claim.  The controller is not reached.
AuthenticateTokenRejects(r, route, token, storeEmail) ==
    /\ apc[r] = "idle"
    /\ Len(served) < MaxAnswers
    /\ ~Verified(token)
    /\ areq' = [areq EXCEPT ![r] =
           [period |-> "none", route |-> route, store |-> "",
            body |-> [storeEmail |-> storeEmail],
            response |-> [status |-> 401,
                          message |-> IF token.signed
                                      THEN "Token missing required claims"
                                      ELSE "Invalid token"]]]
    /\ UNCHANGED <<analyticsCache, apc, ascan, served, now, storeVars, uiVars>>

\* authenticateToken passes the request on: req.store = verified; next()
AuthenticateToken(r, route, token, storeEmail) ==
    /\ apc[r] = "idle"
    /\ Len(served) < MaxAnswers
    /\ Verified(token)
    /\ areq' = [areq EXCEPT ![r] =
           [period |-> "none", route |-> route, store |-> token.storeEmail,
            body |-> [storeEmail |-> storeEmail],
            response |-> [status |-> 0, message |-> ""]]]
    /\ apc' = [apc EXCEPT ![r] = route]
    /\ UNCHANGED <<analyticsCache, ascan, served, now, storeVars, uiVars>>

\* One answer of an analytics route: the store of the token, the storeEmail
\* of the body, and the data sent
Answer(r, data) ==
    [route |-> areq[r].route, store |-> areq[r].store,
     storeEmail |-> areq[r].body.storeEmail, data |-> data]

\* POST /analytics/sales for the custom window of 2024-03-01: the controller
\* hands req.body.storeEmail to getSalesAnalytics, which answers from the
\* cache or runs its aggregations and caches the result
AnalyticsSales(r) ==
    /\ apc[r] = "sales"
    /\ LET email == areq[r].body.storeEmail
           req == ResolveCustom(0, DAY - 1)
           cacheKey == getCacheKeyOf(email, req.startDate, req.endDate)
           data == AnalyticsResult(MatchStoreEmail(billingHistory, email), req)
       IN  IF CacheHit(cacheKey)
           THEN /\ served' = Append(served, Answer(r, analyticsCache[cacheKey].data))
                /\ UNCHANGED analyticsCache
           ELSE /\ served' = Append(served, Answer(r, data))
                /\ analyticsCache' = [analyticsCache EXCEPT ![cacheKey] =
                       [data |-> data, timestamp |-> now]]
    /\ areq' = [areq EXCEPT ![r].response = [status |-> 200, message |-> ""]]
    /\ apc' = [apc EXCEPT ![r] = "idle"]
    /\ UNCHANGED <<ascan, now, storeVars, uiVars>>

\* POST /analytics/top-selling without period and limit: the controller
\* hands req.body.storeEmail to getTopSellingMedicines
AnalyticsTopSelling(r) ==
    /\ apc[r] = "top-selling"
    /\ LET email == areq[r].body.storeEmail
           startDate == TopSellingStart(PeriodOrDefault("", "thisMonth"), FromMs(now))
       IN  \E topSelling \in
                   getTopSellingMedicines(AsInstants(MatchStoreEmail(billingHistory, email)),
                                          startDate, LimitOrDefault(0)) :
               served' = Append(served, Answer(r, topSelling))
    /\ areq' = [areq EXCEPT ![r].response = [status |-> 200, message |-> ""]]
    /\ apc' = [apc EXCEPT ![r] = "idle"]
    /\ UNCHANGED <<analyticsCache, ascan, now, storeVars, uiVars>>

\* Two stores with one bill each, on 2024-03-01 at 10:00, nothing in flight
TenantInit ==
    /\ billingHistory \in {[email \in StoreEmails |-> <<h[email]>>] :
                              h \in [StoreEmails -> UNION {BillsOf(e) : e \in StoreEmails}]}
    /\ \A email \in StoreEmails : billingHistory[email][1] \in BillsOf(email)
    /\ commitLog = <<>>
    /\ stock = <<>>
    /\ version = 1
    /\ pc = [p \in Procs |-> "idle"]
    /\ doc = [p \in Procs |-> NoDoc]
    /\ args = [p \in Procs |-> NoArgs]
    /\ conflict = [p \in Procs |-> FALSE]
    /\ result = [p \in Procs |-> NoResult]
    /\ calls = 0
    /\ now = 10 * HOUR
    /\ analyticsCache = [k \in TenantKeys |-> NoEntry]
    /\ apc = [r \in AProcs |-> "idle"]
    /\ areq = [r \in AProcs |-> NoRequest]
    /\ ascan = [r \in AProcs |-> NoScan]
    /\ served = <<>>
    /\ UiInit

TenantNext ==
    \E r \in TenantCallers :
        \/ \E route \in AnalyticsRoutes, token \in Tokens, storeEmail \in BodyEmails :
               AuthenticateTokenRejects(r, route, token, storeEmail)
        \/ \E route \in AnalyticsRoutes, token \in Tokens, storeEmail \in BodyEmails :
               AuthenticateToken(r, route, token, storeEmail)
        \/ AnalyticsSales(r)
        \/ AnalyticsTopSelling(r)

SpecTenant == TenantInit /\ [][TenantNext]_vars

\* What the route of answer `a` returns when it scans the store `email`
AnswersFor(a, email) ==
    IF a.route = "sales"
    THEN {AnalyticsResult(MatchStoreEmail(billingHistory, email), ResolveCustom(0, DAY - 1))}
    ELSE getTopSellingMedicines(AsInstants(MatchStoreEmail(billingHistory, email)),
             TopSellingStart("thisMonth", FromMs(now)), LimitOrDefault(0))

\* C29: every answer of an analytics route is computed from the billing
\* history of the store the caller's token was signed for, whatever the
\* storeEmail of the request body.
C29_TokenStoreScanned ==
    \A i \in 1..Len(served) : served[i].data \in AnswersFor(served[i], served[i].store)

-----------------------------------------------------------------------------
(* getSalesAnalytics over custom windows that need not start at 00:00 nor  *)
(* end at 23:59:59.999: the aggregate of the window next to its chart.     *)

MaxSeriesCalls == 2  \* getSalesAnalytics calls in one behaviour

SeriesKeys == {getCacheKey(w[1], w[2]) : w \in AggWindows}

\* getSalesAnalytics(email, 'custom', customStart, customEnd) over a history
\* nobody writes to: answered from the cache, or computed by the three
\* aggregations, cached and returned
GetSalesAnalyticsCustom(r, customStart, customEnd) ==
    /\ apc[r] = "idle"
    /\ Len(served) < MaxSeriesCalls
    /\ LET req == ResolveCustom(customStart, customEnd)
           cacheKey == getCacheKey(req.startDate, req.endDate)
           data == AnalyticsResult(billingHistory, req)
       IN  IF CacheHit(cacheKey)
           THEN /\ served' = Append(served,
                       Served(cacheKey, TRUE, analyticsCache[cacheKey].data))
                /\ UNCHANGED analyticsCache
           ELSE /\ served' = Append(served, Served(cacheKey, FALSE, data))
                /\ analyticsCache' = [analyticsCache EXCEPT ![cacheKey] =
                       [data |-> data, timestamp |-> now]]
    /\ UNCHANGED <<apc, areq, ascan, now, storeVars, uiVars>>

\* A store whose billing history is one of AggHistories, nothing cached
SeriesInit ==
    /\ billingHistory \in AggHistories
    /\ commitLog = [i \in 1..Len(billingHistory) |-> billingHistory[i].createdAt]
    /\ stock = <<>>
    /\ version = Len(billingHistory)
    /\ pc = [p \in Procs |-> "idle"]
    /\ doc = [p \in Procs |-> NoDoc]
    /\ args = [p \in Procs |-> NoArgs]
    /\ conflict = [p \in Procs |-> FALSE]
    /\ result = [p \in Procs |-> NoResult]
    /\ calls = 0
    /\ now = DAY
    /\ analyticsCache = [k \in SeriesKeys |-> NoEntry]
    /\ apc = [r \in AProcs |-> "idle"]
    /\ areq = [r \in AProcs |-> NoRequest]
    /\ ascan = [r \in AProcs |-> NoScan]
    /\ served = <<>>
    /\ UiInit

SeriesNext ==
    \E r \in AggCallers, w \in AggWindows : GetSalesAnalyticsCustom(r, w[1], w[2])

SpecSeries == SeriesInit /\ [][SeriesNext]_vars

\* The buckets of a chart summed: their sales and their transactions
RECURSIVE SeriesTotals(_)
SeriesTotals(chartData) ==
    IF chartData = <<>> THEN [sales |-> 0, transactions |-> 0]
    ELSE LET rest == SeriesTotals(Tail(chartData))
         IN  [sales |-> Head(chartData).sales + rest.sales,
              transactions |-> Head(chartData).transactions + rest.transactions]

\* C30: in every result returned, the transactions of the buckets add up to
\* current.transactionCount and their sales to current.totalSales.
C30_SeriesSumsToCurrent ==
    \A i \in 1..Len(served) :
        LET data == served[i].data
            totals == SeriesTotals(data.chartData)
        IN  /\ totals.transactions = data.current.transactionCount
            /\ totals.sales = data.current.totalSales

====
